---- MODULE Spec2Model ----
(***************************************************************************)
(* AssignWork: the RBAC engine over the Prisma-backed permission store,    *)
(* the user synchronisation service, the OAuth2/PKCE client and the        *)
(* callback route, modelled as one state machine.                          *)
(*                                                                         *)
(* The relational store is a set of rows per table.  Row ids (cuid() in    *)
(* the schema) are naturals handed out in creation order; row timestamps   *)
(* are not modelled.  A store read may fail for a reason unrelated to the  *)
(* data (connection lost): the input `fault` of the reading operations     *)
(* says that the read threw.  The writes throw on a constraint violation.  *)
(***************************************************************************)
EXTENDS Integers, Sequences, FiniteSets, TLC

\* ---------------------------------------------------------------- bounds
\* number of User ids the store ever hands out
MaxUserIds == 2
\* number of steps of the clock
MaxTicks == 4
MaxHours == 7
MaxRequests == 2

\* ------------------------------------------------------------ input sets
Null == "null"

RoleNames == {"admin", "user"}
PermKeys == { <<"tasks", "read">>, <<"tasks", "delete">> }
Resources == {"tasks", "projects"}
Actions == {"read", "delete"}
AssignedBy == {Null}

\* identities the provider can report: email, username and provider-only fields
SSOUserSeq ==
  << [id |-> "sso-1", email |-> "alice@iipe", username |-> "alice", userType |-> "ADMIN"],
     [id |-> "sso-2", email |-> "bob@iipe", username |-> "bob", userType |-> "USER"] >>
SSOUsers == {SSOUserSeq[i] : i \in 1..Len(SSOUserSeq)}

\* the identities that agree with ssoUser on email and username: every value of
\* the provider-only fields of SSOUser
ProviderVariants(ssoUser) ==
  [id : {"sso-1", "sso-9"}, email : {ssoUser.email}, username : {ssoUser.username},
   userType : {"USER", "ADMIN", "SUPERADMIN"},
   employmentStatus : {"STAFF", "FACULTY"},
   employmentType : {"REGULAR", "OUTSOURCING"},
   level : {1, 2},
   department : {"CSE", "EE"}]

\* what the token endpoint can answer
TokenResponses ==
  { [access_token |-> "at-1", refresh_token |-> "rt-1", expires_in |-> 60],
    [access_token |-> "at-2", refresh_token |-> "rt-2", expires_in |-> 120] }
Codes == {"code-1", "code-2"}
States == {"st-1", "st-2"}
Verifiers == {"cv-1", "cv-2"}

UserIds == 1..MaxUserIds
RoleIds == 1..Cardinality(RoleNames)
PermIds == 1..Cardinality(PermKeys)

\* Prisma error messages, by their error code
P2002 == "P2002 unique constraint failed"
P2025 == "P2025 record to delete does not exist"

VARIABLES
  user,            \* table User: rows [id, email, username]
  nextUserId,      \* next id the User table hands out
  role,            \* table Role: rows [id, name]
  permission,      \* table Permission: rows [id, resource, action]
  userRole,        \* table UserRole: rows [userId, roleId, assignedBy]
  rolePermission,  \* table RolePermission: rows [roleId, permissionId]
  flow,            \* the OAuth flow cookies: {} or {[state, codeVerifier, returnTo]}
  session,         \* the session cookie: {} or {[user, accessToken, refreshToken, expiresAt]}
  now,             \* Date.now(), in milliseconds
  loginAt,         \* when the callback route stored the session: {} or {Date.now()}
  inflight,        \* the requests being served: each one's position and local values
  last             \* the last operation: its name, arguments and result

\* the requests that can be in flight at once, and one that is not
Requests == 1..MaxRequests
Idle == [pc |-> "idle"]

rbacTables == <<role, permission, userRole, rolePermission>>
store == <<user, nextUserId, role, permission, userRole, rolePermission>>
cookies == <<flow, session>>
vars == <<user, nextUserId, role, permission, userRole, rolePermission, flow, session, now,
          loginAt, inflight, last>>

\* ------------------------------------------------------- store primitives
UserById(id) == {u \in user : u.id = id}
RoleById(id) == {r \in role : r.id = id}
RoleByName(name) == {r \in role : r.name = name}
PermissionById(id) == {p \in permission : p.id = id}
PermissionByKey(res, act) == {p \in permission : p.resource = res /\ p.action = act}
UserRoleByKey(uid, rid) == {ur \in userRole : ur.userId = uid /\ ur.roleId = rid}
RolePermissionByKey(rid, pid) == {rp \in rolePermission : rp.roleId = rid /\ rp.permissionId = pid}

\* userRole.findMany({ where: { userId } })
UserRoleFindMany(uid) == {ur \in userRole : ur.userId = uid}
\* include: { role: { include: { permissions: { include: { permission } } } } }
RolePermissionsOf(rid) ==
  {p \in permission : \E rp \in rolePermission : rp.roleId = rid /\ rp.permissionId = p.id}

\* ------------------------------------------------------------ RBAC engine
\* mutant: the match looks at the resource only
checkPermissionResourceOnly(userId, resource, action, fault) ==
  IF fault
  THEN [allowed |-> FALSE, reason |-> "Error checking permissions", threw |-> FALSE]
  ELSE IF \E ur \in UserRoleFindMany(userId) :
            \E p \in RolePermissionsOf(ur.roleId) : p.resource = resource
       THEN [allowed |-> TRUE, reason |-> Null, threw |-> FALSE]
       ELSE [allowed |-> FALSE, reason |-> "User does not have permission", threw |-> FALSE]

\* mutant: the catch block lets the request through
checkPermissionFailOpen(userId, resource, action, fault) ==
  IF fault
  THEN [allowed |-> TRUE, reason |-> Null, threw |-> FALSE]
  ELSE IF \E ur \in UserRoleFindMany(userId) :
            \E p \in RolePermissionsOf(ur.roleId) :
               p.resource = resource /\ p.action = action
       THEN [allowed |-> TRUE, reason |-> Null, threw |-> FALSE]
       ELSE [allowed |-> FALSE, reason |-> "User does not have permission", threw |-> FALSE]

checkPermission(userId, resource, action, fault) ==
  IF fault
  THEN [allowed |-> FALSE, reason |-> "Error checking permissions", threw |-> FALSE]
  ELSE IF \E ur \in UserRoleFindMany(userId) :
            \E p \in RolePermissionsOf(ur.roleId) :
               p.resource = resource /\ p.action = action
       THEN [allowed |-> TRUE, reason |-> Null, threw |-> FALSE]
       ELSE [allowed |-> FALSE, reason |-> "User does not have permission", threw |-> FALSE]

CheckPermission ==
  \E userId \in UserIds, resource \in Resources, action \in Actions, fault \in BOOLEAN :
    /\ last' = [op |-> "checkPermission", userId |-> userId, resource |-> resource,
                action |-> action, fault |-> fault,
                res |-> checkPermission(userId, resource, action, fault)]
    /\ UNCHANGED <<inflight, loginAt, store, cookies, now>>

\* requirePermission: 403 on a denied check, 500 when checkPermission throws
requirePermission(userId, resource, action, fault) ==
  LET permissionCheck == checkPermission(userId, resource, action, fault) IN
  IF permissionCheck.threw
  THEN [allowed |-> FALSE, status |-> 500, error |-> "permission_check_error",
        reason |-> "Internal error"]
  ELSE IF ~permissionCheck.allowed
       THEN [allowed |-> FALSE, status |-> 403, error |-> "insufficient_permissions",
             reason |-> permissionCheck.reason]
       ELSE [allowed |-> TRUE, status |-> 0, error |-> Null, reason |-> Null]

RequirePermission ==
  \E userId \in UserIds, resource \in Resources, action \in Actions, fault \in BOOLEAN :
    /\ last' = [op |-> "requirePermission", userId |-> userId, resource |-> resource,
                action |-> action, fault |-> fault,
                res |-> requirePermission(userId, resource, action, fault)]
    /\ UNCHANGED <<inflight, loginAt, store, cookies, now>>

\* prisma.userRole.create: the composite key (userId, roleId) is unique
UserRoleCreate(row) ==
  IF UserRoleByKey(row.userId, row.roleId) # {}
  THEN [threw |-> TRUE, error |-> P2002, table |-> userRole]
  ELSE [threw |-> FALSE, error |-> Null, table |-> userRole \cup {row}]

\* prisma.userRole.delete: deleting an absent row throws
UserRoleDelete(userId, roleId) ==
  IF UserRoleByKey(userId, roleId) = {}
  THEN [threw |-> TRUE, error |-> P2025, table |-> userRole]
  ELSE [threw |-> FALSE, error |-> Null, table |-> userRole \ UserRoleByKey(userId, roleId)]

\* prisma.rolePermission.create: the composite key (roleId, permissionId) is unique
RolePermissionCreate(row) ==
  IF RolePermissionByKey(row.roleId, row.permissionId) # {}
  THEN [threw |-> TRUE, error |-> P2002, table |-> rolePermission]
  ELSE [threw |-> FALSE, error |-> Null, table |-> rolePermission \cup {row}]

\* prisma.rolePermission.delete: deleting an absent row throws
RolePermissionDelete(roleId, permissionId) ==
  IF RolePermissionByKey(roleId, permissionId) = {}
  THEN [threw |-> TRUE, error |-> P2025, table |-> rolePermission]
  ELSE [threw |-> FALSE, error |-> Null,
        table |-> rolePermission \ RolePermissionByKey(roleId, permissionId)]

\* prisma.role.create: name is unique
RoleCreate(name) ==
  IF RoleByName(name) # {}
  THEN [threw |-> TRUE, error |-> P2002, table |-> role]
  ELSE [threw |-> FALSE, error |-> Null,
        table |-> role \cup {[id |-> Cardinality(role) + 1, name |-> name]}]

\* prisma.permission.create: (resource, action) is unique
PermissionCreate(resource, action) ==
  IF PermissionByKey(resource, action) # {}
  THEN [threw |-> TRUE, error |-> P2002, table |-> permission]
  ELSE [threw |-> FALSE, error |-> Null,
        table |-> permission \cup {[id |-> Cardinality(permission) + 1,
                                    resource |-> resource, action |-> action]}]

\* mutant: no look-up of an existing assignment before the create
assignRoleNoExistingCheck(userId, roleId, assignedBy) ==
  IF UserById(userId) = {}
  THEN [success |-> FALSE, error |-> "User not found", table |-> userRole]
  ELSE IF RoleById(roleId) = {}
  THEN [success |-> FALSE, error |-> "Role not found", table |-> userRole]
  ELSE LET c == UserRoleCreate([userId |-> userId, roleId |-> roleId,
                                assignedBy |-> assignedBy]) IN
       [success |-> ~c.threw, error |-> c.error, table |-> c.table]

assignRole(userId, roleId, assignedBy) ==
  IF UserById(userId) = {}
  THEN [success |-> FALSE, error |-> "User not found", table |-> userRole]
  ELSE IF RoleById(roleId) = {}
  THEN [success |-> FALSE, error |-> "Role not found", table |-> userRole]
  ELSE IF UserRoleByKey(userId, roleId) # {}
  THEN [success |-> TRUE, error |-> Null, table |-> userRole]
  ELSE LET c == UserRoleCreate([userId |-> userId, roleId |-> roleId,
                                assignedBy |-> assignedBy]) IN
       [success |-> ~c.threw, error |-> c.error, table |-> c.table]

AssignRole ==
  \E userId \in UserIds, roleId \in RoleIds, assignedBy \in AssignedBy :
    LET r == assignRole(userId, roleId, assignedBy) IN
    /\ userRole' = r.table
    /\ last' = [op |-> "assignRole", userId |-> userId, roleId |-> roleId,
                existed |-> UserRoleByKey(userId, roleId) # {},
                res |-> [success |-> r.success, error |-> r.error]]
    /\ UNCHANGED <<inflight, loginAt, user, nextUserId, role, permission, rolePermission, cookies, now>>

\* mutant: deleteMany instead of delete, which does not throw on an absent row
removeRoleDeleteMany(userId, roleId) ==
  [success |-> TRUE, error |-> Null, table |-> userRole \ UserRoleByKey(userId, roleId)]

removeRole(userId, roleId) ==
  LET d == UserRoleDelete(userId, roleId) IN
       [success |-> ~d.threw, error |-> d.error, table |-> d.table]

RemoveRole ==
  \E userId \in UserIds, roleId \in RoleIds :
    LET r == removeRole(userId, roleId) IN
    /\ userRole' = r.table
    /\ last' = [op |-> "removeRole", userId |-> userId, roleId |-> roleId,
                existed |-> UserRoleByKey(userId, roleId) # {},
                res |-> [success |-> r.success, error |-> r.error]]
    /\ UNCHANGED <<inflight, loginAt, user, nextUserId, role, permission, rolePermission, cookies, now>>

createRole(name) ==
  LET c == RoleCreate(name) IN
       [success |-> ~c.threw, error |-> c.error, table |-> c.table]

CreateRole ==
  \E name \in RoleNames :
    LET r == createRole(name) IN
    /\ role' = r.table
    /\ last' = [op |-> "createRole", name |-> name,
                existed |-> RoleByName(name) # {},
                res |-> [success |-> r.success, error |-> r.error]]
    /\ UNCHANGED <<inflight, loginAt, user, nextUserId, permission, userRole, rolePermission, cookies, now>>

\* mutant: an existing (resource, action) is reported as created
createPermissionUpsert(resource, action) ==
  IF PermissionByKey(resource, action) # {}
  THEN [success |-> TRUE, error |-> Null, table |-> permission]
  ELSE [success |-> TRUE, error |-> Null, table |-> PermissionCreate(resource, action).table]

createPermission(resource, action) ==
  LET c == PermissionCreate(resource, action) IN
       [success |-> ~c.threw, error |-> c.error, table |-> c.table]

CreatePermission ==
  \E key \in PermKeys :
    LET r == createPermission(key[1], key[2]) IN
    /\ permission' = r.table
    /\ last' = [op |-> "createPermission", resource |-> key[1], action |-> key[2],
                existed |-> PermissionByKey(key[1], key[2]) # {},
                res |-> [success |-> r.success, error |-> r.error]]
    /\ UNCHANGED <<inflight, loginAt, user, nextUserId, role, userRole, rolePermission, cookies, now>>

grantPermissionToRole(roleId, permissionId) ==
  IF RoleById(roleId) = {}
  THEN [success |-> FALSE, error |-> "Role not found", table |-> rolePermission]
  ELSE IF PermissionById(permissionId) = {}
  THEN [success |-> FALSE, error |-> "Permission not found", table |-> rolePermission]
  ELSE IF RolePermissionByKey(roleId, permissionId) # {}
  THEN [success |-> TRUE, error |-> Null, table |-> rolePermission]
  ELSE LET c == RolePermissionCreate([roleId |-> roleId, permissionId |-> permissionId]) IN
       [success |-> ~c.threw, error |-> c.error, table |-> c.table]

GrantPermissionToRole ==
  \E roleId \in RoleIds, permissionId \in PermIds :
    LET r == grantPermissionToRole(roleId, permissionId) IN
    /\ rolePermission' = r.table
    /\ last' = [op |-> "grantPermissionToRole", roleId |-> roleId,
                permissionId |-> permissionId,
                existed |-> RolePermissionByKey(roleId, permissionId) # {},
                res |-> [success |-> r.success, error |-> r.error]]
    /\ UNCHANGED <<inflight, loginAt, user, nextUserId, role, permission, userRole, cookies, now>>

revokePermissionFromRole(roleId, permissionId) ==
  LET d == RolePermissionDelete(roleId, permissionId) IN
       [success |-> ~d.threw, error |-> d.error, table |-> d.table]

RevokePermissionFromRole ==
  \E roleId \in RoleIds, permissionId \in PermIds :
    LET r == revokePermissionFromRole(roleId, permissionId) IN
    /\ rolePermission' = r.table
    /\ last' = [op |-> "revokePermissionFromRole", roleId |-> roleId,
                permissionId |-> permissionId,
                existed |-> RolePermissionByKey(roleId, permissionId) # {},
                res |-> [success |-> r.success, error |-> r.error]]
    /\ UNCHANGED <<inflight, loginAt, user, nextUserId, role, permission, userRole, cookies, now>>


\* the key of the de-duplication Map: `${permission.resource}:${permission.action}`
PermissionMapKey(p) == p.resource \o ":" \o p.action

\* getUserPermissions: the permissions of the roles assigned to the user, put into
\* a Map under PermissionMapKey unless the key is already there; [] on a store
\* error.  The rows come in the order the store returns them, which the query does
\* not fix, so the operator gives every list the call can return (as a set of rows:
\* the entries of a Map have distinct keys).
getUserPermissions(userId, fault) ==
  IF fault
  THEN {{}}
  ELSE LET granted == UNION {RolePermissionsOf(ur.roleId) : ur \in UserRoleFindMany(userId)}
           keys == {PermissionMapKey(p) : p \in granted} IN
       {R \in SUBSET granted :
          \A k \in keys : Cardinality({p \in R : PermissionMapKey(p) = k}) = 1}

GetUserPermissions ==
  \E userId \in UserIds, fault \in BOOLEAN :
    \E res \in getUserPermissions(userId, fault) :
      /\ last' = [op |-> "getUserPermissions", userId |-> userId, fault |-> fault,
                  res |-> res]
      /\ UNCHANGED <<inflight, loginAt, store, cookies, now>>

\* ------------------------------------------------------------- User Sync
\* prisma.user.findUnique({ where: { email } }) inside try/catch: null on a store error
getUserByEmail(email, fault) ==
  IF fault THEN {} ELSE {u \in user : u.email = email}

\* prisma.user.findUnique({ where: { username } }) inside try/catch: null on a store error
getUserByUsername(username, fault) ==
  IF fault THEN {} ELSE {u \in user : u.username = username}

\* mutant: the username is looked up first
findLocalUserUsernameFirst(email, username, faults) ==
  IF getUserByUsername(username, "username" \in faults) # {}
  THEN getUserByUsername(username, "username" \in faults)
  ELSE getUserByEmail(email, "email" \in faults)

\* email first, then username; faults is the set of store calls that fail
findLocalUser(email, username, faults) ==
  IF getUserByEmail(email, "email" \in faults) # {}
  THEN getUserByEmail(email, "email" \in faults)
  ELSE getUserByUsername(username, "username" \in faults)

\* the emails and usernames a caller can ask for, in any combination
Emails == {u.email : u \in SSOUsers}
Usernames == {u.username : u \in SSOUsers}

FindLocalUser ==
  \E email \in Emails, username \in Usernames, faults \in SUBSET {"email", "username"} :
    /\ last' = [op |-> "findLocalUser", email |-> email, username |-> username,
                faults |-> faults, res |-> findLocalUser(email, username, faults)]
    /\ UNCHANGED <<inflight, loginAt, store, cookies, now>>

\* prisma.user.create: email is unique and username is unique
UserCreate(email, username) ==
  IF \E u \in user : u.email = email \/ u.username = username
  THEN [threw |-> TRUE, error |-> P2002, row |-> {}, table |-> user]
  ELSE LET row == [id |-> nextUserId, email |-> email, username |-> username] IN
       [threw |-> FALSE, error |-> Null, row |-> {row}, table |-> user \cup {row}]

\* persists exactly {email, username}; any store error becomes one thrown Error
createLocalUser(email, username, fault) ==
  IF fault \/ UserCreate(email, username).threw
  THEN [threw |-> TRUE, error |-> "Failed to create local user", user |-> {}, table |-> user]
  ELSE [threw |-> FALSE, error |-> Null, user |-> UserCreate(email, username).row,
        table |-> UserCreate(email, username).table]

\* mutant: an identity without a local User is provisioned on the spot
syncUserFromSSOAutoProvision(ssoUser, faults) ==
  LET localUser == findLocalUser(ssoUser.email, ssoUser.username, faults)
      created == createLocalUser(ssoUser.email, ssoUser.username, FALSE) IN
  IF localUser # {}
  THEN [success |-> TRUE, user |-> localUser, userExists |-> TRUE, error |-> Null,
        table |-> user]
  ELSE IF created.threw
  THEN [success |-> FALSE, user |-> {}, userExists |-> FALSE, error |-> "sync_error",
        table |-> user]
  ELSE [success |-> TRUE, user |-> created.user, userExists |-> FALSE, error |-> Null,
        table |-> created.table]

\* table is the User table the call leaves behind
syncUserFromSSO(ssoUser, faults) ==
  LET localUser == findLocalUser(ssoUser.email, ssoUser.username, faults) IN
  IF localUser # {}
  THEN [success |-> TRUE, user |-> localUser, userExists |-> TRUE, error |-> Null,
        table |-> user]
  ELSE [success |-> FALSE, user |-> {}, userExists |-> FALSE, error |-> "user_not_found",
        table |-> user]

SyncUserFromSSO ==
  \E ssoUser \in SSOUsers, faults \in SUBSET {"email", "username"} :
    LET r == syncUserFromSSO(ssoUser, faults) IN
    /\ user' = r.table
    /\ nextUserId' = IF r.table = user THEN nextUserId ELSE nextUserId + 1
    /\ last' = [op |-> "syncUserFromSSO", ssoUser |-> ssoUser, faults |-> faults,
                res |-> [success |-> r.success, user |-> r.user,
                         userExists |-> r.userExists, error |-> r.error]]
    /\ UNCHANGED <<inflight, loginAt, role, permission, userRole, rolePermission, cookies, now>>

\* mutant: the created row keeps the provider's userType
provisionUserFromSSOKeepUserType(ssoUser, faults) ==
  LET existingUser == findLocalUser(ssoUser.email, ssoUser.username, faults)
      row == [id |-> nextUserId, email |-> ssoUser.email, username |-> ssoUser.username,
              userType |-> ssoUser.userType] IN
  IF existingUser # {}
  THEN [threw |-> FALSE, error |-> Null, user |-> existingUser, table |-> user]
  ELSE IF "create" \in faults
  THEN [threw |-> TRUE, error |-> "Failed to create local user", user |-> {},
        table |-> user]
  ELSE [threw |-> FALSE, error |-> Null, user |-> {row}, table |-> user \cup {row}]

\* mutant: the row is created without looking for an existing User
provisionUserFromSSOAlwaysCreate(ssoUser, faults) ==
  createLocalUser(ssoUser.email, ssoUser.username, "create" \in faults)

provisionUserFromSSO(ssoUser, faults) ==
  LET existingUser == findLocalUser(ssoUser.email, ssoUser.username, faults) IN
  IF existingUser # {}
  THEN [threw |-> FALSE, error |-> Null, user |-> existingUser, table |-> user]
  ELSE createLocalUser(ssoUser.email, ssoUser.username, "create" \in faults)

ProvisionUserFromSSO ==
  \E ssoUser \in SSOUsers, faults \in SUBSET {"email", "username", "create"} :
    LET r == provisionUserFromSSO(ssoUser, faults) IN
    /\ Cardinality(r.table) > Cardinality(user) => nextUserId <= MaxUserIds
    /\ user' = r.table
    /\ nextUserId' = IF r.table = user THEN nextUserId ELSE nextUserId + 1
    /\ last' = [op |-> "provisionUserFromSSO", ssoUser |-> ssoUser, faults |-> faults,
                existed |-> \E u \in user : u.email = ssoUser.email
                                            \/ u.username = ssoUser.username,
                res |-> [threw |-> r.threw, error |-> r.error, user |-> r.user]]
    /\ UNCHANGED <<inflight, loginAt, role, permission, userRole, rolePermission, cookies, now>>

\* ---------------------------------------------------------- OAuth2 client
\* Date.now() + expiresIn * 1000
calculateExpiresAt(expiresIn) == now + expiresIn * 1000

\* ssoConfig: the client registration, read from the environment
ClientId == "assignwork"
AuthorizeUrl == "https://sso.iipe/oauth/authorize"
CallbackUrl == "https://assignwork.iipe/api/auth/callback"

\* generateCodeChallenge: base64url(SHA-256(verifier)), an injective image of the verifier
generateCodeChallenge(verifier) == "S256(" \o verifier \o ")"

\* the optional parameters of initiateAuth; Null is an absent field
Scopes == {Null, "", "openid"}
AuthorizationParams ==
  [state : {Null, "", "st-1"}, codeVerifier : {Null, "", "cv-1"}, scope : Scopes]

\* JavaScript falsiness of an optional string: undefined or ''
Falsy(x) == x = Null \/ x = ""

\* initiateAuth: randomVerifier and randomState are what generateCodeVerifier and
\* generateState draw when the parameter is not given; searchParams is the query
\* of the URL, one value per parameter name
initiateAuth(params, randomVerifier, randomState) ==
  LET codeVerifier == IF Falsy(params.codeVerifier) THEN randomVerifier
                      ELSE params.codeVerifier
      codeChallenge == generateCodeChallenge(codeVerifier)
      state == IF Falsy(params.state) THEN randomState ELSE params.state
      query == [client_id |-> ClientId, redirect_uri |-> CallbackUrl,
                response_type |-> "code", state |-> state,
                code_challenge |-> codeChallenge] IN
  [authorizationUrl |->
     [endpoint |-> AuthorizeUrl,
      searchParams |-> IF Falsy(params.scope) THEN query
                       ELSE query @@ ("scope" :> params.scope)],
   state |-> state,
   codeVerifier |-> codeVerifier]

InitiateAuth ==
  \E params \in AuthorizationParams, randomVerifier \in Verifiers, randomState \in States :
    /\ last' = [op |-> "initiateAuth", params |-> params,
                res |-> initiateAuth(params, randomVerifier, randomState)]
    /\ UNCHANGED <<inflight, loginAt, store, cookies, now>>

\* mutant: the state comparison is skipped
handleCallbackNoStateCheck(code, state, codeVerifier, expectedState, tokenAnswer, userAnswer) ==
  LET tokenCall == [endpoint |-> "token", code |-> code, code_verifier |-> codeVerifier,
                    bearer |-> Null] IN
  IF tokenAnswer = {}
  THEN [success |-> FALSE, error |-> "token_exchange_failed", tokens |-> {},
        userInfo |-> {}, calls |-> <<tokenCall>>]
  ELSE LET tokens == CHOOSE t \in tokenAnswer : TRUE
           userCall == [endpoint |-> "userinfo", code |-> Null, code_verifier |-> Null,
                        bearer |-> tokens.access_token] IN
       IF userAnswer = {}
       THEN [success |-> FALSE, error |-> "userinfo_fetch_failed", tokens |-> {},
             userInfo |-> {}, calls |-> <<tokenCall, userCall>>]
       ELSE [success |-> TRUE, error |-> Null, tokens |-> tokenAnswer,
             userInfo |-> userAnswer, calls |-> <<tokenCall, userCall>>]

\* mutant: the userinfo endpoint is asked before the token result is looked at
handleCallbackUserInfoFirst(code, state, codeVerifier, expectedState, tokenAnswer, userAnswer) ==
  LET tokenCall == [endpoint |-> "token", code |-> code, code_verifier |-> codeVerifier,
                    bearer |-> Null]
      userCall == [endpoint |-> "userinfo", code |-> Null, code_verifier |-> Null,
                   bearer |-> IF tokenAnswer = {} THEN Null
                              ELSE (CHOOSE t \in tokenAnswer : TRUE).access_token] IN
  IF state # expectedState
  THEN [success |-> FALSE, error |-> "invalid_state", tokens |-> {}, userInfo |-> {},
        calls |-> <<>>]
  ELSE IF userAnswer = {}
  THEN [success |-> FALSE, error |-> "userinfo_fetch_failed", tokens |-> {},
        userInfo |-> {}, calls |-> <<tokenCall, userCall>>]
  ELSE IF tokenAnswer = {}
  THEN [success |-> FALSE, error |-> "token_exchange_failed", tokens |-> {},
        userInfo |-> {}, calls |-> <<tokenCall, userCall>>]
  ELSE [success |-> TRUE, error |-> Null, tokens |-> tokenAnswer,
        userInfo |-> userAnswer, calls |-> <<tokenCall, userCall>>]

\* handleCallback: tokenAnswer is what the token endpoint answers when called ({} for a
\* failure, which exchangeCodeForToken turns into null) and userAnswer what the
\* userinfo endpoint answers; calls is the sequence of outbound calls made.
handleCallback(code, state, codeVerifier, expectedState, tokenAnswer, userAnswer) ==
  LET tokenCall == [endpoint |-> "token", code |-> code, code_verifier |-> codeVerifier,
                    bearer |-> Null] IN
  IF state # expectedState
  THEN [success |-> FALSE, error |-> "invalid_state", tokens |-> {}, userInfo |-> {},
        calls |-> <<>>]
  ELSE IF tokenAnswer = {}
  THEN [success |-> FALSE, error |-> "token_exchange_failed", tokens |-> {},
        userInfo |-> {}, calls |-> <<tokenCall>>]
  ELSE LET tokens == CHOOSE t \in tokenAnswer : TRUE
           userCall == [endpoint |-> "userinfo", code |-> Null, code_verifier |-> Null,
                        bearer |-> tokens.access_token] IN
       IF userAnswer = {}
       THEN [success |-> FALSE, error |-> "userinfo_fetch_failed", tokens |-> {},
             userInfo |-> {}, calls |-> <<tokenCall, userCall>>]
       ELSE [success |-> TRUE, error |-> Null, tokens |-> tokenAnswer,
             userInfo |-> userAnswer, calls |-> <<tokenCall, userCall>>]

TokenAnswers == {{}} \cup {{t} : t \in TokenResponses}
UserAnswers == {{}} \cup {{u} : u \in SSOUsers}

HandleCallback ==
  \E code \in Codes, state \in States, codeVerifier \in Verifiers, expectedState \in States,
     tokenAnswer \in TokenAnswers, userAnswer \in UserAnswers :
    /\ last' = [op |-> "handleCallback", code |-> code, state |-> state,
                codeVerifier |-> codeVerifier, expectedState |-> expectedState,
                tokenAnswer |-> tokenAnswer, userAnswer |-> userAnswer,
                res |-> handleCallback(code, state, codeVerifier, expectedState,
                                       tokenAnswer, userAnswer)]
    /\ UNCHANGED <<inflight, loginAt, store, cookies, now>>

\* ------------------------------------------------------------ auth routes
\* getOAuthFlowData: null unless both the state and the verifier cookie are set
getOAuthFlowData == flow

\* GET /api/auth/login: initiateAuth draws a fresh state and code verifier, and
\* storeOAuthFlowData puts them into the flow cookies
LoginRoute ==
  \E state \in States, codeVerifier \in Verifiers :
    /\ flow' = {[state |-> state, codeVerifier |-> codeVerifier, returnTo |-> "/"]}
    /\ last' = [op |-> "login", state |-> state, codeVerifier |-> codeVerifier]
    /\ UNCHANGED <<inflight, loginAt, store, session, now>>

\* mutant: the flow data is cleared only when the callback succeeded
callbackRouteKeepFlowOnFailure(code, state, tokenAnswer, userAnswer, faults) ==
  IF code = Null \/ state = Null
  THEN [redirect |-> "missing_parameters", flow |-> flow, session |-> session,
        table |-> user, calls |-> <<>>, stored |-> FALSE]
  ELSE IF getOAuthFlowData = {}
  THEN [redirect |-> "invalid_state", flow |-> flow, session |-> session,
        table |-> user, calls |-> <<>>, stored |-> FALSE]
  ELSE LET flowData == CHOOSE f \in getOAuthFlowData : TRUE
           result == handleCallback(code, state, flowData.codeVerifier, flowData.state,
                                    tokenAnswer, userAnswer) IN
       IF ~result.success \/ result.tokens = {} \/ result.userInfo = {}
       THEN [redirect |-> result.error, flow |-> flow, session |-> session,
             table |-> user, calls |-> result.calls, stored |-> FALSE]
       ELSE LET tokens == CHOOSE t \in result.tokens : TRUE
                syncResult == syncUserFromSSO(CHOOSE u \in result.userInfo : TRUE, faults) IN
            IF ~syncResult.success \/ syncResult.user = {}
            THEN [redirect |-> syncResult.error, flow |-> flow, session |-> session,
                  table |-> syncResult.table, calls |-> result.calls, stored |-> FALSE]
            ELSE [redirect |-> flowData.returnTo, flow |-> {},
                  session |-> {[user |-> CHOOSE u \in syncResult.user : TRUE,
                                accessToken |-> tokens.access_token,
                                refreshToken |-> tokens.refresh_token,
                                expiresAt |-> calculateExpiresAt(tokens.expires_in)]},
                  table |-> syncResult.table, calls |-> result.calls, stored |-> TRUE]

\* GET /api/auth/callback.  code and state are the query parameters (Null when
\* absent); the result names the redirect and the outbound calls made.
callbackRoute(code, state, tokenAnswer, userAnswer, faults) ==
  IF code = Null \/ state = Null
  THEN [redirect |-> "missing_parameters", flow |-> flow, session |-> session,
        table |-> user, calls |-> <<>>, stored |-> FALSE]
  ELSE IF getOAuthFlowData = {}
  THEN [redirect |-> "invalid_state", flow |-> flow, session |-> session,
        table |-> user, calls |-> <<>>, stored |-> FALSE]
  ELSE LET flowData == CHOOSE f \in getOAuthFlowData : TRUE
           result == handleCallback(code, state, flowData.codeVerifier, flowData.state,
                                    tokenAnswer, userAnswer) IN
       IF ~result.success \/ result.tokens = {} \/ result.userInfo = {}
       THEN [redirect |-> result.error, flow |-> {}, session |-> session,
             table |-> user, calls |-> result.calls, stored |-> FALSE]
       ELSE LET tokens == CHOOSE t \in result.tokens : TRUE
                syncResult == syncUserFromSSO(CHOOSE u \in result.userInfo : TRUE, faults) IN
            IF ~syncResult.success \/ syncResult.user = {}
            THEN [redirect |-> syncResult.error, flow |-> {}, session |-> session,
                  table |-> syncResult.table, calls |-> result.calls, stored |-> FALSE]
            ELSE [redirect |-> flowData.returnTo, flow |-> {},
                  session |-> {[user |-> CHOOSE u \in syncResult.user : TRUE,
                                accessToken |-> tokens.access_token,
                                refreshToken |-> tokens.refresh_token,
                                expiresAt |-> calculateExpiresAt(tokens.expires_in)]},
                  table |-> syncResult.table, calls |-> result.calls, stored |-> TRUE]

CallbackRoute ==
  \E code \in {"code-1", Null}, state \in States \cup {Null},
     tokenAnswer \in TokenAnswers, userAnswer \in UserAnswers,
     faults \in {{}, {"email", "username"}} :
    LET r == callbackRoute(code, state, tokenAnswer, userAnswer, faults) IN
    /\ flow' = r.flow
    /\ session' = r.session
    /\ user' = r.table
    /\ nextUserId' = IF r.table = user THEN nextUserId ELSE nextUserId + 1
    /\ last' = [op |-> "callback", code |-> code, state |-> state,
                tokenAnswer |-> tokenAnswer, userAnswer |-> userAnswer,
                faults |-> faults, hadFlow |-> flow,
                res |-> [redirect |-> r.redirect, calls |-> r.calls, stored |-> r.stored]]
    /\ loginAt' = IF r.stored THEN {now} ELSE loginAt
    /\ UNCHANGED <<inflight, role, permission, userRole, rolePermission, now>>

\* ------------------------------------------------------- admin endpoints
\* prisma.user.upsert({ where: { email }, update: { username }, create: { email,
\* username } }): the row with the email gets the username, or a new row is made;
\* username is unique
UserUpsert(email, username) ==
  LET existing == {u \in user : u.email = email} IN
  IF \E u \in user : u.username = username /\ u.email # email
  THEN [threw |-> TRUE, error |-> P2002, table |-> user]
  ELSE IF existing # {}
  THEN [threw |-> FALSE, error |-> Null,
        table |-> (user \ existing) \cup {[u EXCEPT !.username = username] : u \in existing}]
  ELSE [threw |-> FALSE, error |-> Null,
        table |-> user \cup {[id |-> nextUserId, email |-> email, username |-> username]}]

\* request bodies of POST /api/admin/sync-users: users is absent ({}), an empty
\* array, or an array with one user
SyncPayloads ==
  {{}} \cup {{<<>>}}
       \cup {{<<[email |-> e, username |-> n]>>} : e \in Emails, n \in Usernames}

\* POST /api/admin/sync-users
syncUsersRoute(users) ==
  IF users = {}
  THEN [status |-> 400, error |-> "Users array is required", table |-> user]
  ELSE LET array == CHOOSE a \in users : TRUE IN
       IF array = <<>>
       THEN [status |-> 200, error |-> Null, table |-> user]
       ELSE LET r == UserUpsert(array[1].email, array[1].username) IN
            IF r.threw
            THEN [status |-> 500, error |-> "Failed to sync users", table |-> user]
            ELSE [status |-> 200, error |-> Null, table |-> r.table]

SyncUsersRoute ==
  \E users \in SyncPayloads :
    LET r == syncUsersRoute(users) IN
    /\ Cardinality(r.table) > Cardinality(user) => nextUserId <= MaxUserIds
    /\ user' = r.table
    /\ nextUserId' = IF Cardinality(r.table) > Cardinality(user) THEN nextUserId + 1
                     ELSE nextUserId
    /\ last' = [op |-> "syncUsers", users |-> users,
                res |-> [status |-> r.status, error |-> r.error]]
    /\ UNCHANGED <<inflight, loginAt, role, permission, userRole, rolePermission, cookies, now>>

\* mutant: the delete leaves the UserRole rows of the user in place
UserDeleteNoCascade(id) ==
  IF UserById(id) = {}
  THEN [threw |-> TRUE, error |-> P2025, user |-> user, userRole |-> userRole]
  ELSE [threw |-> FALSE, error |-> Null, user |-> user \ UserById(id),
        userRole |-> userRole]

\* prisma.user.delete: throws on an absent row; UserRole.user is onDelete: Cascade
UserDelete(id) ==
  IF UserById(id) = {}
  THEN [threw |-> TRUE, error |-> P2025, user |-> user, userRole |-> userRole]
  ELSE [threw |-> FALSE, error |-> Null, user |-> user \ UserById(id),
        userRole |-> {ur \in userRole : ur.userId # id}]

\* DELETE /api/admin/users?id=...; id is the query parameter, {} when absent
deleteUserRoute(id) ==
  IF id = {}
  THEN [status |-> 400, error |-> "User ID is required", user |-> user, userRole |-> userRole]
  ELSE LET d == UserDelete(CHOOSE i \in id : TRUE) IN
       IF d.threw
       THEN [status |-> 500, error |-> "Failed to delete user", user |-> user,
             userRole |-> userRole]
       ELSE [status |-> 200, error |-> Null, user |-> d.user, userRole |-> d.userRole]

DeleteUserRoute ==
  \E id \in {{}} \cup {{i} : i \in UserIds} :
    LET r == deleteUserRoute(id) IN
    /\ user' = r.user
    /\ userRole' = r.userRole
    /\ last' = [op |-> "deleteUser", id |-> id,
                hadRoles |-> \E i \in id : UserRoleFindMany(i) # {},
                res |-> [status |-> r.status, error |-> r.error]]
    /\ UNCHANGED <<inflight, loginAt, nextUserId, role, permission, rolePermission, cookies, now>>

\* -------------------------------------------------------- session manager
\* getSession on a cookie value: null when the value is not JSON (a record with
\* the field raw only) and unless user, accessToken and refreshToken are set; a
\* field the JSON lacks is a field the record lacks.  expiresAt is not looked at.
parseSession(cookie) ==
  {s \in cookie : /\ {"user", "accessToken", "refreshToken"} \subseteq DOMAIN s
                  /\ s.accessToken # ""
                  /\ s.refreshToken # ""}

getSession == parseSession(session)
getCurrentSession == getSession

\* isTokenExpired's default bufferSeconds
DefaultBufferSeconds == 60

\* mutant: expired only after the buffer boundary has passed
isTokenExpiredStrict(expiresAt, bufferSeconds) ==
  now > expiresAt - bufferSeconds * 1000

\* now >= expiresAt - bufferMs
isTokenExpired(expiresAt, bufferSeconds) ==
  now >= expiresAt - bufferSeconds * 1000

\* session.expiresAt: {} is JavaScript's undefined, for a session without the field
ExpiresAtOf(s) == IF "expiresAt" \in DOMAIN s THEN {s.expiresAt} ELSE {}

\* isTokenExpired(session.expiresAt, bufferSeconds): undefined - bufferMs is NaN, and
\* now >= NaN is false
isSessionTokenExpired(s, bufferSeconds) ==
  \E expiresAt \in ExpiresAtOf(s) : isTokenExpired(expiresAt, bufferSeconds)

\* hasValidSession: now < session.expiresAt, false without a session and for undefined
hasValidSession ==
  \E s \in getSession : \E expiresAt \in ExpiresAtOf(s) : now < expiresAt

isSessionValid == hasValidSession

\* the POST to the token endpoint that refreshAccessToken makes
RefreshCall(refreshToken) ==
  [endpoint |-> "token", grant_type |-> "refresh_token", refresh_token |-> refreshToken]

\* mutant: the refresh token of the response is not stored
updateSessionKeepRefreshToken(s, tokens) ==
  [accessToken |-> tokens.access_token,
   expiresAt |-> calculateExpiresAt(tokens.expires_in)] @@ s

\* updateSession: the current session with the given fields replaced
updateSession(s, tokens) ==
  [accessToken |-> tokens.access_token,
   refreshToken |-> tokens.refresh_token,
   expiresAt |-> calculateExpiresAt(tokens.expires_in)] @@ s

\* mutant: a failed refresh clears the session
refreshSessionIfNeededClearOnFailure(refreshAnswer) ==
  IF getSession = {}
  THEN [result |-> FALSE, session |-> session, calls |-> <<>>]
  ELSE LET s == CHOOSE x \in getSession : TRUE IN
       IF ~isSessionTokenExpired(s, 60)
       THEN [result |-> TRUE, session |-> session, calls |-> <<>>]
       ELSE IF refreshAnswer = {}
       THEN [result |-> FALSE, session |-> {}, calls |-> <<RefreshCall(s.refreshToken)>>]
       ELSE [result |-> TRUE,
             session |-> {updateSession(s, CHOOSE t \in refreshAnswer : TRUE)},
             calls |-> <<RefreshCall(s.refreshToken)>>]

\* mutant: a failed refresh is tried a second time
refreshSessionIfNeededRetry(refreshAnswer) ==
  IF getSession = {}
  THEN [result |-> FALSE, session |-> session, calls |-> <<>>]
  ELSE LET s == CHOOSE x \in getSession : TRUE IN
       IF ~isSessionTokenExpired(s, 60)
       THEN [result |-> TRUE, session |-> session, calls |-> <<>>]
       ELSE IF refreshAnswer = {}
       THEN [result |-> FALSE, session |-> session,
             calls |-> <<RefreshCall(s.refreshToken), RefreshCall(s.refreshToken)>>]
       ELSE [result |-> TRUE,
             session |-> {updateSession(s, CHOOSE t \in refreshAnswer : TRUE)},
             calls |-> <<RefreshCall(s.refreshToken)>>]

\* refreshSessionIfNeeded: refreshAnswer is what the token endpoint answers when
\* asked ({} for a failure, which refreshAccessToken turns into null); session is
\* the cookie the call leaves behind and calls the outbound calls it made
refreshSessionIfNeeded(refreshAnswer) ==
  IF getSession = {}
  THEN [result |-> FALSE, session |-> session, calls |-> <<>>]
  ELSE LET s == CHOOSE x \in getSession : TRUE IN
       IF ~isSessionTokenExpired(s, 60)
       THEN [result |-> TRUE, session |-> session, calls |-> <<>>]
       ELSE IF refreshAnswer = {}
       THEN [result |-> FALSE, session |-> session, calls |-> <<RefreshCall(s.refreshToken)>>]
       ELSE [result |-> TRUE,
             session |-> {updateSession(s, CHOOSE t \in refreshAnswer : TRUE)},
             calls |-> <<RefreshCall(s.refreshToken)>>]

RefreshSessionIfNeeded ==
  \E refreshAnswer \in TokenAnswers :
    LET r == refreshSessionIfNeeded(refreshAnswer) IN
    /\ session' = r.session
    /\ last' = [op |-> "refreshSessionIfNeeded", refreshAnswer |-> refreshAnswer,
                res |-> [result |-> r.result, calls |-> r.calls]]
    /\ UNCHANGED <<inflight, loginAt, store, flow, now>>

\* getAccessToken: the access token of the session after refreshSessionIfNeeded,
\* null ({}) when that returned false
getAccessToken(refreshAnswer) ==
  LET refreshed == refreshSessionIfNeeded(refreshAnswer) IN
  IF ~refreshed.result
  THEN [result |-> {}, session |-> refreshed.session, calls |-> refreshed.calls]
  ELSE [result |-> {s.accessToken : s \in parseSession(refreshed.session)},
        session |-> refreshed.session, calls |-> refreshed.calls]

GetAccessToken ==
  \E refreshAnswer \in TokenAnswers :
    LET r == getAccessToken(refreshAnswer) IN
    /\ session' = r.session
    /\ last' = [op |-> "getAccessToken", refreshAnswer |-> refreshAnswer,
                res |-> [result |-> r.result, calls |-> r.calls]]
    /\ UNCHANGED <<inflight, loginAt, store, flow, now>>

\* mutant: the user id of whatever session is stored, expired or not
validateSessionAndGetUserIdNoExpiryCheck(refreshAnswer) ==
  [result |-> {s.user.id : s \in getSession}, session |-> session, calls |-> <<>>]

\* validateSessionAndGetUserId: the session's user id, after a refresh when the
\* token is expired; null ({}) without a session or when the refresh fails
validateSessionAndGetUserId(refreshAnswer) ==
  IF getSession = {}
  THEN [result |-> {}, session |-> session, calls |-> <<>>]
  ELSE LET s == CHOOSE x \in getSession : TRUE IN
       IF isSessionTokenExpired(s, DefaultBufferSeconds)
       THEN LET refreshed == refreshSessionIfNeeded(refreshAnswer) IN
            IF ~refreshed.result
            THEN [result |-> {}, session |-> refreshed.session, calls |-> refreshed.calls]
            ELSE [result |-> {u.user.id : u \in parseSession(refreshed.session)},
                  session |-> refreshed.session, calls |-> refreshed.calls]
       ELSE [result |-> {s.user.id}, session |-> session, calls |-> <<>>]

ValidateSessionAndGetUserId ==
  \E refreshAnswer \in TokenAnswers :
    LET r == validateSessionAndGetUserId(refreshAnswer) IN
    /\ session' = r.session
    /\ last' = [op |-> "validateSessionAndGetUserId", refreshAnswer |-> refreshAnswer,
                res |-> [result |-> r.result, calls |-> r.calls]]
    /\ UNCHANGED <<inflight, loginAt, store, flow, now>>

\* what the provider's logout endpoint can do: answer 2xx, answer non-2xx, or not
\* answer within the 5 second timeout
LogoutAnswers == {"ok", "error_status", "timeout"}

\* the POST to the logout endpoint
LogoutCall(accessToken) == [step |-> "logout", bearer |-> accessToken]

\* mutant: the provider is asked first and the session is cleared only on its 2xx
terminateSessionLogoutFirst(logoutAnswer, clearFault) ==
  IF getSession = {}
  THEN [result |-> ~clearFault, session |-> IF clearFault THEN session ELSE {},
        steps |-> <<[step |-> "clearSession", bearer |-> Null]>>]
  ELSE LET s == CHOOSE x \in getSession : TRUE IN
       IF logoutAnswer = "ok" /\ ~clearFault
       THEN [result |-> TRUE, session |-> {},
             steps |-> <<LogoutCall(s.accessToken), [step |-> "clearSession", bearer |-> Null]>>]
       ELSE [result |-> FALSE, session |-> session,
             steps |-> <<LogoutCall(s.accessToken)>>]

\* terminateSession: clearFault says that the cookie store refuses the delete in
\* this call (then the catch block's second clearSession fails as well); steps is
\* the sequence of effects attempted, session the cookie left behind
terminateSession(logoutAnswer, clearFault) ==
  LET clear == [step |-> "clearSession", bearer |-> Null] IN
  IF clearFault
  THEN [result |-> FALSE, session |-> session, steps |-> <<clear, clear>>]
  ELSE IF getSession # {}
  THEN [result |-> TRUE, session |-> {},
        steps |-> <<clear, LogoutCall((CHOOSE x \in getSession : TRUE).accessToken)>>]
  ELSE [result |-> TRUE, session |-> {}, steps |-> <<clear>>]

TerminateSession ==
  \E logoutAnswer \in LogoutAnswers, clearFault \in BOOLEAN :
    LET r == terminateSession(logoutAnswer, clearFault) IN
    /\ session' = r.session
    /\ last' = [op |-> "terminateSession", logoutAnswer |-> logoutAnswer,
                clearFault |-> clearFault,
                res |-> [result |-> r.result, steps |-> r.steps]]
    /\ UNCHANGED <<inflight, loginAt, store, flow, now>>

GetCurrentSession ==
  /\ last' = [op |-> "getCurrentSession", res |-> getCurrentSession]
  /\ UNCHANGED <<inflight, loginAt, store, cookies, now>>

IsSessionValid ==
  /\ last' = [op |-> "isSessionValid", res |-> isSessionValid]
  /\ UNCHANGED <<inflight, loginAt, store, cookies, now>>

\* --------------------------------------------------------- auth middleware
\* the GET to the provider's validate-session endpoint
ValidateCall(accessToken) ==
  [endpoint |-> "validate-session", grant_type |-> Null, refresh_token |-> Null,
   bearer |-> accessToken]

\* what the validate-session endpoint can do: answer 200, answer 401, or fail
ValidationAnswers == {"200", "401", "error"}

\* mutant: a failed refresh lets the request through
verifyAuthIgnoreFailedRefresh(isPublic, hasSessionToken, validation, refreshAnswer) ==
  IF isPublic
  THEN [response |-> "next", session |-> session, calls |-> <<>>]
  ELSE IF getSession # {} /\ ~hasSessionToken
  THEN [response |-> "redirect_login", session |-> {}, calls |-> <<>>]
  ELSE IF getSession = {}
  THEN [response |-> "redirect_login", session |-> session, calls |-> <<>>]
  ELSE LET s == CHOOSE x \in getSession : TRUE
           validate == ValidateCall(s.accessToken) IN
       IF validation = "401"
       THEN [response |-> "redirect_login", session |-> {}, calls |-> <<validate>>]
       ELSE IF isSessionTokenExpired(s, DefaultBufferSeconds)
       THEN IF refreshAnswer = {}
            THEN [response |-> "next", session |-> session,
                  calls |-> <<validate, RefreshCall(s.refreshToken)>>]
            ELSE [response |-> "next",
                  session |-> {updateSession(s, CHOOSE t \in refreshAnswer : TRUE)},
                  calls |-> <<validate, RefreshCall(s.refreshToken)>>]
       ELSE [response |-> "next", session |-> session, calls |-> <<validate>>]

\* verifyAuth: isPublic says that the path starts with a public route,
\* hasSessionToken that the request carries the provider's session_token cookie,
\* validation is what the validate-session endpoint does when asked and
\* refreshAnswer what the token endpoint answers when asked.  response is "next"
\* for null (the request goes on to the route handler) or the redirect to login.
verifyAuth(isPublic, hasSessionToken, validation, refreshAnswer) ==
  IF isPublic
  THEN [response |-> "next", session |-> session, calls |-> <<>>]
  ELSE IF getSession # {} /\ ~hasSessionToken
  THEN [response |-> "redirect_login", session |-> {}, calls |-> <<>>]
  ELSE IF getSession = {}
  THEN [response |-> "redirect_login", session |-> session, calls |-> <<>>]
  ELSE LET s == CHOOSE x \in getSession : TRUE
           validate == ValidateCall(s.accessToken) IN
       IF validation = "401"
       THEN [response |-> "redirect_login", session |-> {}, calls |-> <<validate>>]
       ELSE IF isSessionTokenExpired(s, DefaultBufferSeconds)
       THEN IF refreshAnswer = {}
            THEN [response |-> "redirect_login", session |-> session,
                  calls |-> <<validate, RefreshCall(s.refreshToken)>>]
            ELSE [response |-> "next",
                  session |-> {updateSession(s, CHOOSE t \in refreshAnswer : TRUE)},
                  calls |-> <<validate, RefreshCall(s.refreshToken)>>]
       ELSE [response |-> "next", session |-> session, calls |-> <<validate>>]

VerifyAuth ==
  \E isPublic \in BOOLEAN, hasSessionToken \in BOOLEAN, validation \in ValidationAnswers,
     refreshAnswer \in TokenAnswers :
    LET r == verifyAuth(isPublic, hasSessionToken, validation, refreshAnswer) IN
    /\ session' = r.session
    /\ last' = [op |-> "verifyAuth", isPublic |-> isPublic,
                hasSessionToken |-> hasSessionToken, validation |-> validation,
                refreshAnswer |-> refreshAnswer,
                res |-> [response |-> r.response, calls |-> r.calls]]
    /\ UNCHANGED <<inflight, loginAt, store, flow, now>>

\* requireAuth: the user id of the session, after a refresh when the token is
\* expired; status 0 stands for no error response
requireAuth(refreshAnswer) ==
  IF getSession = {}
  THEN [authenticated |-> FALSE, userId |-> {}, status |-> 401, error |-> "unauthorized",
        session |-> session, calls |-> <<>>]
  ELSE LET s == CHOOSE x \in getSession : TRUE IN
       IF isSessionTokenExpired(s, DefaultBufferSeconds)
       THEN IF refreshAnswer = {}
            THEN [authenticated |-> FALSE, userId |-> {}, status |-> 401,
                  error |-> "token_expired", session |-> session,
                  calls |-> <<RefreshCall(s.refreshToken)>>]
            ELSE LET updated == {updateSession(s, CHOOSE t \in refreshAnswer : TRUE)} IN
                 IF parseSession(updated) = {}
                 THEN [authenticated |-> FALSE, userId |-> {}, status |-> 500,
                       error |-> "session_error", session |-> updated,
                       calls |-> <<RefreshCall(s.refreshToken)>>]
                 ELSE [authenticated |-> TRUE,
                       userId |-> {u.user.id : u \in parseSession(updated)},
                       status |-> 0, error |-> Null, session |-> updated,
                       calls |-> <<RefreshCall(s.refreshToken)>>]
       ELSE [authenticated |-> TRUE, userId |-> {s.user.id}, status |-> 0, error |-> Null,
             session |-> session, calls |-> <<>>]

RequireAuth ==
  \E refreshAnswer \in TokenAnswers :
    LET r == requireAuth(refreshAnswer) IN
    /\ session' = r.session
    /\ last' = [op |-> "requireAuth", refreshAnswer |-> refreshAnswer,
                res |-> [authenticated |-> r.authenticated, userId |-> r.userId,
                         status |-> r.status, error |-> r.error, calls |-> r.calls]]
    /\ UNCHANGED <<inflight, loginAt, store, flow, now>>

\* the fields of SessionData that every session carries
SessionFields == {"user", "accessToken", "refreshToken", "expiresAt"}

\* the session cookie is the plain JSON of the session, neither signed nor
\* encrypted: the request can carry any value under its name.  The values here
\* are text that is not JSON and a session with one field left out.
MalformedCookies ==
  {[raw |-> "not json"]}
    \cup { [k \in SessionFields \ {f} |->
              [user |-> u, accessToken |-> t.access_token,
               refreshToken |-> t.refresh_token,
               expiresAt |-> calculateExpiresAt(t.expires_in)][k]] :
           f \in SessionFields, u \in user, t \in TokenResponses }

\* a request arrives with a session cookie the application did not write
RequestWithCookie ==
  \E cookie \in MalformedCookies :
    /\ session' = {cookie}
    /\ last' = [op |-> "requestWithCookie"]
    /\ UNCHANGED <<inflight, loginAt, store, flow, now>>

\* createSession: the session of a local User with the tokens the provider issued,
\* as the callback route builds it
CreateSession ==
  \E u \in user, tokens \in TokenResponses :
    /\ session' = {[user |-> u, accessToken |-> tokens.access_token,
                    refreshToken |-> tokens.refresh_token,
                    expiresAt |-> calculateExpiresAt(tokens.expires_in)]}
    /\ loginAt' = {now}
    /\ last' = [op |-> "createSession", userId |-> u.id, tokens |-> tokens]
    /\ UNCHANGED <<inflight, store, flow, now>>

\* time passes, half a refresh buffer at a time
Tick ==
  /\ now < MaxTicks * ((DefaultBufferSeconds * 1000) \div 2)
  /\ now' = now + (DefaultBufferSeconds * 1000) \div 2
  /\ last' = [op |-> "tick"]
  /\ UNCHANGED <<inflight, loginAt, store, cookies>>

Init ==
  /\ user = {}
  /\ nextUserId = 1
  /\ role = {}
  /\ permission = {}
  /\ userRole = {}
  /\ rolePermission = {}
  /\ flow = {}
  /\ session = {}
  /\ now = 0
  /\ last = [op |-> "init"]
  /\ loginAt = {}
  /\ inflight = [r \in Requests |-> Idle]

\* the User rows an administrator has provisioned before the RBAC engine is used:
\* the first n identities, with ids in creation order
ProvisionedUsers(n) ==
  {[id |-> i, email |-> SSOUserSeq[i].email, username |-> SSOUserSeq[i].username] : i \in 1..n}

InitRBAC ==
  /\ \E n \in 1..Len(SSOUserSeq) :
       /\ n <= MaxUserIds
       /\ user = ProvisionedUsers(n)
       /\ nextUserId = n + 1
  /\ role = {}
  /\ permission = {}
  /\ userRole = {}
  /\ rolePermission = {}
  /\ flow = {}
  /\ session = {}
  /\ now = 0
  /\ last = [op |-> "init"]
  /\ loginAt = {}
  /\ inflight = [r \in Requests |-> Idle]

\* the RBAC engine over a store whose users are provisioned
NextRBAC ==
  \/ CheckPermission
  \/ RequirePermission
  \/ AssignRole
  \/ RemoveRole
  \/ CreateRole
  \/ CreatePermission
  \/ GrantPermissionToRole
  \/ RevokePermissionFromRole

SpecRBAC == InitRBAC /\ [][NextRBAC]_vars

\* permissions whose names carry a scope, as an administrator can create them:
\* createPermission takes any two strings
ScopedPermKeys == <<[resource |-> "tasks", action |-> "read:own"],
                    [resource |-> "tasks:read", action |-> "own"]>>

\* a store in which the users are provisioned and an administrator has created the
\* roles and the scoped permissions, with ids in creation order
InitPerms ==
  /\ \E n \in 1..Len(SSOUserSeq) :
       /\ n <= MaxUserIds
       /\ user = ProvisionedUsers(n)
       /\ nextUserId = n + 1
  /\ role = {[id |-> 1, name |-> "admin"], [id |-> 2, name |-> "user"]}
  /\ permission = {[id |-> i, resource |-> ScopedPermKeys[i].resource,
                    action |-> ScopedPermKeys[i].action] : i \in 1..Len(ScopedPermKeys)}
  /\ userRole = {}
  /\ rolePermission = {}
  /\ flow = {}
  /\ session = {}
  /\ now = 0
  /\ last = [op |-> "init"]
  /\ loginAt = {}
  /\ inflight = [r \in Requests |-> Idle]

\* assigning roles, granting permissions and listing a user's permissions
NextPerms ==
  \/ AssignRole
  \/ RemoveRole
  \/ GrantPermissionToRole
  \/ RevokePermissionFromRole
  \/ GetUserPermissions

SpecPerms == InitPerms /\ [][NextPerms]_vars

\* a store in which the users are provisioned and an administrator has created the
\* roles and the permissions, with ids in creation order
InitAdmin ==
  /\ \E n \in 1..Len(SSOUserSeq) :
       /\ n <= MaxUserIds
       /\ user = ProvisionedUsers(n)
       /\ nextUserId = n + 1
  /\ role = {[id |-> 1, name |-> "admin"], [id |-> 2, name |-> "user"]}
  /\ permission = {[id |-> 1, resource |-> "tasks", action |-> "read"],
                   [id |-> 2, resource |-> "tasks", action |-> "delete"]}
  /\ userRole = {}
  /\ rolePermission = {}
  /\ flow = {}
  /\ session = {}
  /\ now = 0
  /\ last = [op |-> "init"]
  /\ loginAt = {}
  /\ inflight = [r \in Requests |-> Idle]

\* the administration of users next to the assignment of roles
NextAdmin ==
  \/ SyncUsersRoute
  \/ DeleteUserRoute
  \/ ProvisionUserFromSSO
  \/ SyncUserFromSSO
  \/ AssignRole
  \/ GrantPermissionToRole

SpecAdmin == InitAdmin /\ [][NextAdmin]_vars

\* the session manager over the session cookie of a provisioned user
NextSession ==
  \/ CreateSession
  \/ Tick
  \/ RefreshSessionIfNeeded
  \/ GetAccessToken
  \/ ValidateSessionAndGetUserId
  \/ TerminateSession

SpecSession == InitRBAC /\ [][NextSession]_vars

\* the session operations and the guards of the routes, over every session cookie
\* a request can carry
NextGuard ==
  \/ CreateSession
  \/ RequestWithCookie
  \/ Tick
  \/ GetCurrentSession
  \/ IsSessionValid
  \/ RefreshSessionIfNeeded
  \/ RequireAuth
  \/ VerifyAuth

SpecGuard == InitRBAC /\ [][NextGuard]_vars

\* ------------------------------------------------- extend-session endpoint
\* SESSION_CONFIG of the extend-session route
EXTENSION_DURATION_MS == 10 * 60 * 1000
MAX_SESSION_DURATION_MS == 6 * 60 * 60 * 1000

Min(a, b) == IF a <= b THEN a ELSE b

\* session.createdAt || Date.now(): the field is optional and 0 is falsy
CreatedAtOf(s) ==
  IF "createdAt" \in DOMAIN s /\ s.createdAt # 0 THEN s.createdAt ELSE now

\* the x-session-timing request header: {} when absent, a record with the field raw
\* only when it is not JSON, else the parsed object (sessionCreatedAt when it has one)
\* timing.sessionCreatedAt || sessionCreatedAt
TimingCreatedAt(timingHeader, sessionCreatedAt) ==
  IF \E t \in timingHeader : "sessionCreatedAt" \in DOMAIN t /\ t.sessionCreatedAt # 0
  THEN (CHOOSE t \in timingHeader : TRUE).sessionCreatedAt
  ELSE sessionCreatedAt

\* what the provider's extend-session endpoint answers; "error" is a failed call
ExtendAnswers == {"ok", "maxSessionReached", "error"}

ExtendCall(accessToken) == [endpoint |-> "extend-session", bearer |-> accessToken]

\* POST /api/auth/extend-session
extendSession(timingHeader, ssoAnswer) ==
  IF getSession = {}
  THEN [status |-> 401, success |-> FALSE, maxSessionReached |-> {}, expiresAt |-> {},
        session |-> session, calls |-> <<>>]
  ELSE LET s == CHOOSE x \in getSession : TRUE
           sessionCreatedAt == TimingCreatedAt(timingHeader, CreatedAtOf(s))
           sessionAge == now - sessionCreatedAt IN
       IF sessionAge >= MAX_SESSION_DURATION_MS
       THEN [status |-> 403, success |-> FALSE, maxSessionReached |-> {TRUE},
             expiresAt |-> {}, session |-> session, calls |-> <<>>]
       ELSE IF ssoAnswer = "maxSessionReached"
       THEN [status |-> 403, success |-> FALSE, maxSessionReached |-> {TRUE},
             expiresAt |-> {}, session |-> session,
             calls |-> <<ExtendCall(s.accessToken)>>]
       ELSE LET maxAllowedExpiration == sessionCreatedAt + MAX_SESSION_DURATION_MS
                requestedExpiration == now + EXTENSION_DURATION_MS
                newExpiresAt == Min(requestedExpiration, maxAllowedExpiration) IN
            [status |-> 200, success |-> TRUE, maxSessionReached |-> {FALSE},
             expiresAt |-> {newExpiresAt},
             session |-> {[expiresAt |-> newExpiresAt] @@ s},
             calls |-> <<ExtendCall(s.accessToken)>>]

\* the header as a client can send it: none, not JSON, JSON without the field, or
\* the time of the login as the browser recorded it (a positive Date.now())
TimingHeaders ==
  {{}} \cup {{[raw |-> "not json"]}} \cup {{[lastActivityAt |-> now]}}
       \cup {{[sessionCreatedAt |-> t]} : t \in loginAt \ {0}}

ExtendSession ==
  \E timingHeader \in TimingHeaders, ssoAnswer \in ExtendAnswers :
    LET r == extendSession(timingHeader, ssoAnswer) IN
    /\ session' = r.session
    /\ last' = [op |-> "extendSession", timingHeader |-> timingHeader,
                ssoAnswer |-> ssoAnswer,
                res |-> [status |-> r.status, success |-> r.success,
                         maxSessionReached |-> r.maxSessionReached,
                         expiresAt |-> r.expiresAt, calls |-> r.calls]]
    /\ UNCHANGED <<inflight, loginAt, store, flow, now>>

\* time passes by an hour, or by an hour less half an extension
ElapseSteps == {60 * 60 * 1000, 60 * 60 * 1000 - EXTENSION_DURATION_MS \div 2}

Elapse ==
  \E d \in ElapseSteps :
    /\ now + d <= MaxHours * 60 * 60 * 1000
    /\ now' = now + d
    /\ last' = [op |-> "elapse", by |-> d]
    /\ UNCHANGED <<inflight, loginAt, store, cookies>>

\* a logged-in browser that keeps its session alive over hours
NextExtend ==
  \/ CreateSession
  \/ Elapse
  \/ ExtendSession

SpecExtend == InitRBAC /\ [][NextExtend]_vars

\* ------------------------------------------------ concurrent RBAC calls
\* assignRole up to its create: the look-ups of the user, the role and the existing
\* assignment; the call then answers, or goes on to prisma.userRole.create
AssignRoleLookup ==
  \E r \in Requests, userId \in UserIds, roleId \in RoleIds, assignedBy \in AssignedBy :
    /\ inflight[r] = Idle
    /\ inflight' =
         [inflight EXCEPT ![r] =
            IF UserById(userId) = {}
            THEN [pc |-> "done", op |-> "assignRole", userId |-> userId, roleId |-> roleId,
                  res |-> [success |-> FALSE, error |-> "User not found"]]
            ELSE IF RoleById(roleId) = {}
            THEN [pc |-> "done", op |-> "assignRole", userId |-> userId, roleId |-> roleId,
                  res |-> [success |-> FALSE, error |-> "Role not found"]]
            ELSE IF UserRoleByKey(userId, roleId) # {}
            THEN [pc |-> "done", op |-> "assignRole", userId |-> userId, roleId |-> roleId,
                  res |-> [success |-> TRUE, error |-> Null]]
            ELSE [pc |-> "create", op |-> "assignRole", userId |-> userId,
                  roleId |-> roleId, assignedBy |-> assignedBy]]
    /\ UNCHANGED <<store, cookies, now, loginAt, last>>

\* assignRole from its create on: a create that throws is caught and answered with
\* success: false
AssignRoleCreate ==
  \E r \in Requests :
    /\ inflight[r].pc = "create"
    /\ inflight[r].op = "assignRole"
    /\ LET c == UserRoleCreate([userId |-> inflight[r].userId,
                                roleId |-> inflight[r].roleId,
                                assignedBy |-> inflight[r].assignedBy]) IN
       /\ userRole' = c.table
       /\ inflight' = [inflight EXCEPT ![r] =
                         [pc |-> "done", op |-> "assignRole",
                          userId |-> inflight[r].userId, roleId |-> inflight[r].roleId,
                          res |-> [success |-> ~c.threw, error |-> c.error]]]
    /\ UNCHANGED <<user, nextUserId, role, permission, rolePermission, cookies, now,
                   loginAt, last>>

\* grantPermissionToRole up to its create
GrantPermissionLookup ==
  \E r \in Requests, roleId \in RoleIds, permissionId \in PermIds :
    /\ inflight[r] = Idle
    /\ inflight' =
         [inflight EXCEPT ![r] =
            IF RoleById(roleId) = {}
            THEN [pc |-> "done", op |-> "grantPermissionToRole", roleId |-> roleId,
                  permissionId |-> permissionId,
                  res |-> [success |-> FALSE, error |-> "Role not found"]]
            ELSE IF PermissionById(permissionId) = {}
            THEN [pc |-> "done", op |-> "grantPermissionToRole", roleId |-> roleId,
                  permissionId |-> permissionId,
                  res |-> [success |-> FALSE, error |-> "Permission not found"]]
            ELSE IF RolePermissionByKey(roleId, permissionId) # {}
            THEN [pc |-> "done", op |-> "grantPermissionToRole", roleId |-> roleId,
                  permissionId |-> permissionId,
                  res |-> [success |-> TRUE, error |-> Null]]
            ELSE [pc |-> "create", op |-> "grantPermissionToRole", roleId |-> roleId,
                  permissionId |-> permissionId]]
    /\ UNCHANGED <<store, cookies, now, loginAt, last>>

\* grantPermissionToRole from its create on
GrantPermissionCreate ==
  \E r \in Requests :
    /\ inflight[r].pc = "create"
    /\ inflight[r].op = "grantPermissionToRole"
    /\ LET c == RolePermissionCreate([roleId |-> inflight[r].roleId,
                                      permissionId |-> inflight[r].permissionId]) IN
       /\ rolePermission' = c.table
       /\ inflight' = [inflight EXCEPT ![r] =
                         [pc |-> "done", op |-> "grantPermissionToRole",
                          roleId |-> inflight[r].roleId,
                          permissionId |-> inflight[r].permissionId,
                          res |-> [success |-> ~c.threw, error |-> c.error]]]
    /\ UNCHANGED <<user, nextUserId, role, permission, userRole, cookies, now,
                   loginAt, last>>

\* the caller has its answer
CallReturns ==
  \E r \in Requests :
    /\ inflight[r].pc = "done"
    /\ inflight[r].op \in {"assignRole", "grantPermissionToRole"}
    /\ inflight' = [inflight EXCEPT ![r] = Idle]
    /\ last' = [op |-> inflight[r].op, res |-> inflight[r].res]
    /\ UNCHANGED <<store, cookies, now, loginAt>>

\* calls of assignRole and grantPermissionToRole that overlap, on a store with
\* users, roles and permissions
NextConcurrentRBAC ==
  \/ AssignRoleLookup
  \/ AssignRoleCreate
  \/ GrantPermissionLookup
  \/ GrantPermissionCreate
  \/ CallReturns

SpecConcurrentRBAC == InitAdmin /\ [][NextConcurrentRBAC]_vars

\* ------------------------------------------- concurrent session requests
\* The session lives in the browser's cookie.  A request carries the cookie the
\* browser held when it was sent: cookies() reads that copy for the whole request,
\* and what the handler sets or deletes travels back in the response and replaces
\* the browser's cookie when the response arrives.  In a request record, cookie is
\* the copy carried, and setCookie is {} when the response sets nothing, {{}} when
\* it deletes the cookie and {{s}} when it stores s.

\* refreshSessionIfNeeded up to the call of the token endpoint
RefreshStart ==
  \E r \in Requests :
    /\ inflight[r] = Idle
    /\ inflight' =
         [inflight EXCEPT ![r] =
            IF parseSession(session) = {}
            THEN [pc |-> "done", op |-> "refreshSessionIfNeeded", cookie |-> session,
                  res |-> FALSE, setCookie |-> {}, tokens |-> {}, storedAt |-> now]
            ELSE IF ~isSessionTokenExpired(CHOOSE x \in parseSession(session) : TRUE, 60)
            THEN [pc |-> "done", op |-> "refreshSessionIfNeeded", cookie |-> session,
                  res |-> TRUE, setCookie |-> {}, tokens |-> {}, storedAt |-> now]
            ELSE [pc |-> "refreshAccessToken", op |-> "refreshSessionIfNeeded",
                  cookie |-> session,
                  call |-> RefreshCall((CHOOSE x \in parseSession(session) : TRUE).refreshToken)]]
    /\ UNCHANGED <<store, cookies, now, loginAt, last>>

\* refreshSessionIfNeeded from the answer of the token endpoint on: updateSession
\* reads the session of the request again and stores it with the new fields
RefreshAnswered ==
  \E r \in Requests, refreshAnswer \in TokenAnswers :
    /\ inflight[r].pc = "refreshAccessToken"
    /\ inflight' =
         [inflight EXCEPT ![r] =
            IF refreshAnswer = {}
            THEN [pc |-> "done", op |-> "refreshSessionIfNeeded",
                  cookie |-> inflight[r].cookie,
                  res |-> FALSE, setCookie |-> {}, tokens |-> {}, storedAt |-> now]
            ELSE [pc |-> "done", op |-> "refreshSessionIfNeeded",
                  cookie |-> inflight[r].cookie, res |-> TRUE,
                  setCookie |-> {{updateSession(CHOOSE x \in parseSession(inflight[r].cookie) : TRUE,
                                                CHOOSE t \in refreshAnswer : TRUE)}},
                  tokens |-> refreshAnswer, storedAt |-> now]]
    /\ UNCHANGED <<store, cookies, now, loginAt, last>>

\* terminateSession up to the call of the logout endpoint: getSession, clearSession
LogoutStart ==
  \E r \in Requests :
    /\ inflight[r] = Idle
    /\ inflight' =
         [inflight EXCEPT ![r] =
            IF parseSession(session) # {}
            THEN [pc |-> "logout", op |-> "terminateSession", cookie |-> session,
                  call |-> LogoutCall((CHOOSE x \in parseSession(session) : TRUE).accessToken)]
            ELSE [pc |-> "done", op |-> "terminateSession", cookie |-> session,
                  res |-> TRUE, setCookie |-> {{}}, tokens |-> {}, storedAt |-> now]]
    /\ UNCHANGED <<store, cookies, now, loginAt, last>>

\* terminateSession from the answer of the logout endpoint on; whatever the answer,
\* the result is true
LogoutAnswered ==
  \E r \in Requests, logoutAnswer \in LogoutAnswers :
    /\ inflight[r].pc = "logout"
    /\ inflight' =
         [inflight EXCEPT ![r] =
            [pc |-> "done", op |-> "terminateSession", cookie |-> inflight[r].cookie,
             res |-> TRUE, setCookie |-> {{}}, tokens |-> {}, storedAt |-> now]]
    /\ UNCHANGED <<store, cookies, now, loginAt, last>>

\* the response of a request reaches the browser, which takes over its cookie
ResponseArrives ==
  \E r \in Requests :
    /\ inflight[r].pc = "done"
    /\ inflight[r].op \in {"refreshSessionIfNeeded", "terminateSession"}
    /\ session' = IF inflight[r].setCookie = {} THEN session
                  ELSE CHOOSE c \in inflight[r].setCookie : TRUE
    /\ inflight' = [inflight EXCEPT ![r] = Idle]
    /\ last' = [op |-> inflight[r].op, res |-> inflight[r].res,
                cookie |-> inflight[r].cookie, setCookie |-> inflight[r].setCookie,
                tokens |-> inflight[r].tokens, storedAt |-> inflight[r].storedAt,
                before |-> session]
    /\ UNCHANGED <<store, flow, now, loginAt>>

\* a login, when the browser holds no session and waits for no response
Login ==
  /\ session = {}
  /\ \A r \in Requests : inflight[r] = Idle
  /\ CreateSession

\* one browser whose requests overlap
NextConcurrentSession ==
  \/ Login
  \/ Tick
  \/ RefreshStart
  \/ RefreshAnswered
  \/ LogoutStart
  \/ LogoutAnswered
  \/ ResponseArrives

SpecConcurrentSession == InitRBAC /\ [][NextConcurrentSession]_vars

\* the login path, the user synchronisation service and the administrative
\* provisioning of users, from an empty store
NextAuth ==
  \/ LoginRoute
  \/ CallbackRoute
  \/ SyncUserFromSSO
  \/ ProvisionUserFromSSO
  \/ FindLocalUser

SpecAuth == Init /\ [][NextAuth]_vars

\* the OAuth2 client on every input
NextOAuth ==
  \/ HandleCallback
  \/ InitiateAuth

SpecOAuth == Init /\ [][NextOAuth]_vars

\* ----------------------------------------------------------------- claims
\* some role assigned to user u holds a grant of the permission (res, act)
GrantPath(u, res, act) ==
  \E ur \in userRole, rp \in rolePermission, p \in permission :
    /\ ur.userId = u
    /\ rp.roleId = ur.roleId
    /\ rp.permissionId = p.id
    /\ p.resource = res
    /\ p.action = act

\* C1: a checkPermission whose store read succeeds answers allowed=true exactly when
\* some role now assigned to the user now holds a grant of exactly that
\* (resource, action); once the last grant path is gone the check answers false,
\* and a permission still granted through another assigned role stays allowed.
C1_CheckPermissionIffGranted ==
  (last.op = "checkPermission" /\ ~last.fault)
    => (last.res.allowed <=> GrantPath(last.userId, last.resource, last.action))

\* C1 witness: a check is denied for a user who holds a role, the permission still
\* being granted to a role the user does not (or no longer) hold, while another
\* permission stays allowed for that user.
C1_Witness ==
  /\ last.op = "checkPermission"
  /\ ~last.fault
  /\ ~last.res.allowed
  /\ \E rp \in rolePermission, p \in permission :
       /\ rp.permissionId = p.id
       /\ p.resource = last.resource /\ p.action = last.action
       /\ UserRoleByKey(last.userId, rp.roleId) = {}
  /\ \E res \in Resources, act \in Actions : GrantPath(last.userId, res, act)

\* C2: handleCallback with state different from expectedState returns success=false
\* with error invalid_state and calls neither the token nor the userinfo endpoint,
\* whatever the code and the code verifier.
C2_StateMismatchNoCalls ==
  (last.op = "handleCallback" /\ last.state # last.expectedState)
    => ( /\ ~last.res.success
         /\ last.res.error = "invalid_state"
         /\ last.res.calls = <<>>
         /\ last.res.tokens = {} )

\* C2 witness: the state did not match although the provider would have answered
\* both calls.
C2_Witness ==
  /\ last.op = "handleCallback"
  /\ last.state # last.expectedState
  /\ last.tokenAnswer # {}
  /\ last.userAnswer # {}
  /\ last.res.error = "invalid_state"

\* a local User matches the identity's email or username
LocalMatch(ssoUser) ==
  {u \in user : u.email = ssoUser.email \/ u.username = ssoUser.username}

\* C3: the callback route stores a session only when, in that request, code and state
\* were present, flow data was stored, the state matched, token exchange and userinfo
\* fetch succeeded and a local User matching the identity exists; the session then
\* carries that User.  No step of the login path creates a User row.
C3_SessionOnlyForLocalUser ==
  [][ last'.op \in {"login", "callback"}
        => /\ UNCHANGED <<user, nextUserId>>
           /\ last'.op = "login" => UNCHANGED session
           /\ last'.op = "callback"
                => /\ ~last'.res.stored => UNCHANGED session
                   /\ last'.res.stored
                        => /\ last'.code # Null /\ last'.state # Null
                           /\ flow # {}
                           /\ \A f \in flow : f.state = last'.state
                           /\ last'.tokenAnswer # {}
                           /\ last'.userAnswer # {}
                           /\ \A id \in last'.userAnswer, se \in session' :
                                se.user \in LocalMatch(id)
                           /\ session' # {}
    ]_vars

\* C3 witness: a callback stored a session for a provisioned user.
C3_Witness ==
  /\ last.op = "callback"
  /\ last.res.stored
  /\ \E se \in session : se.user \in user

\* C4: with a working store, syncUserFromSSO returns success=true, userExists=true
\* and the local User when one matches the identity's email or username, and
\* success=false, userExists=false, error user_not_found when none matches; the User
\* table is left unchanged in every case.
C4_SyncReportsAndWritesNothing ==
  [][ last'.op = "syncUserFromSSO"
        => /\ UNCHANGED <<user, nextUserId>>
           /\ (last'.faults = {} /\ LocalMatch(last'.ssoUser) # {})
                => /\ last'.res.success
                   /\ last'.res.userExists
                   /\ last'.res.user # {}
                   /\ last'.res.user \subseteq LocalMatch(last'.ssoUser)
           /\ (last'.faults = {} /\ LocalMatch(last'.ssoUser) = {})
                => /\ ~last'.res.success
                   /\ ~last'.res.userExists
                   /\ last'.res.user = {}
                   /\ last'.res.error = "user_not_found"
    ]_vars

\* C4 witness: syncUserFromSSO reported user_not_found while other users exist.
C4_Witness ==
  /\ last.op = "syncUserFromSSO"
  /\ last.faults = {}
  /\ last.res.error = "user_not_found"
  /\ LocalMatch(last.ssoUser) = {}
  /\ user # {}

\* C5: for an existing user and role, an assignRole that follows a successful
\* assignRole of the same pair reports success again and leaves exactly one UserRole
\* row for the pair; likewise grantPermissionToRole and RolePermission rows.
C5_AssignAndGrantIdempotent ==
  [][ /\ ( /\ last.op = "assignRole" /\ last.res.success
           /\ last'.op = "assignRole"
           /\ last'.userId = last.userId /\ last'.roleId = last.roleId )
         => ( /\ last'.res.success
              /\ userRole' = userRole
              /\ Cardinality(UserRoleByKey(last.userId, last.roleId)') = 1 )
      /\ ( /\ last.op = "grantPermissionToRole" /\ last.res.success
           /\ last'.op = "grantPermissionToRole"
           /\ last'.roleId = last.roleId /\ last'.permissionId = last.permissionId )
         => ( /\ last'.res.success
              /\ rolePermission' = rolePermission
              /\ Cardinality(RolePermissionByKey(last.roleId, last.permissionId)') = 1 )
    ]_vars

\* C5 witness: an assignRole found the pair already assigned and reported success.
C5_Witness ==
  /\ last.op = "assignRole"
  /\ last.existed
  /\ last.res.success
  /\ Cardinality(UserRoleByKey(last.userId, last.roleId)) = 1

\* C6: removeRole of a pair without a UserRole row, and revokePermissionFromRole of
\* a pair without a RolePermission row, return success=false with an error and
\* leave every RBAC table unchanged.
C6_RemoveAbsentFails ==
  [][ /\ (last'.op = "removeRole" /\ UserRoleByKey(last'.userId, last'.roleId) = {})
         => ( /\ ~last'.res.success
              /\ last'.res.error # Null
              /\ UNCHANGED rbacTables )
      /\ ( /\ last'.op = "revokePermissionFromRole"
           /\ RolePermissionByKey(last'.roleId, last'.permissionId) = {} )
         => ( /\ ~last'.res.success
              /\ last'.res.error # Null
              /\ UNCHANGED rbacTables )
    ]_vars

\* C6 witness: a removeRole was called for a pair that had no row, with roles
\* assigned elsewhere in the table.
C6_Witness ==
  /\ last.op = "removeRole"
  /\ ~last.existed
  /\ ~last.res.success
  /\ userRole # {}

NoDuplicateKeys ==
  /\ \A p, q \in permission : (p.resource = q.resource /\ p.action = q.action) => p = q
  /\ \A r, q \in role : r.name = q.name => r = q

\* C7: createPermission of an existing (resource, action) and createRole of an
\* existing name fail with success=false and leave the store unchanged; no two
\* Permissions ever share a (resource, action) and no two Roles share a name.
C7_DuplicatesRejected ==
  /\ []NoDuplicateKeys
  /\ [][ /\ ( /\ last'.op = "createPermission"
              /\ PermissionByKey(last'.resource, last'.action) # {} )
            => (~last'.res.success /\ UNCHANGED store)
         /\ (last'.op = "createRole" /\ RoleByName(last'.name) # {})
            => (~last'.res.success /\ UNCHANGED store)
       ]_vars

\* C7 witness: a createPermission of an existing pair was rejected.
C7_Witness ==
  /\ last.op = "createPermission"
  /\ last.existed
  /\ ~last.res.success
  /\ Cardinality(PermissionByKey(last.resource, last.action)) = 1

\* C8: when the store read fails, checkPermission returns allowed=false with a
\* reason and does not throw.
C8_CheckPermissionFailsClosed ==
  (last.op = "checkPermission" /\ last.fault)
    => (~last.res.allowed /\ last.res.reason # Null /\ ~last.res.threw)

\* C8 witness: the store read failed on a check that the tables would allow.
C8_Witness ==
  /\ last.op = "checkPermission"
  /\ last.fault
  /\ GrantPath(last.userId, last.resource, last.action)
  /\ ~last.res.allowed

\* C9 (as claimed): requirePermission answers a denied permission with 403
\* insufficient_permissions and a store failure during the check with 500
\* permission_check_error.
C9_StoreFailureIs500 ==
  last.op = "requirePermission"
    => IF last.fault
       THEN last.res.status = 500 /\ last.res.error = "permission_check_error"
       ELSE ~GrantPath(last.userId, last.resource, last.action)
              => (last.res.status = 403 /\ last.res.error = "insufficient_permissions")

\* C10: with a matching state handleCallback calls the token endpoint first; a null
\* token answer gives token_exchange_failed without a userinfo call; a null userinfo
\* answer gives userinfo_fetch_failed; success=true with the tokens and the identity
\* is returned only when both calls succeeded; the userinfo call carries the access
\* token that the token exchange returned.
C10_ExchangeThenUserInfo ==
  (last.op = "handleCallback" /\ last.state = last.expectedState)
    => LET calls == last.res.calls IN
       /\ Len(calls) >= 1
       /\ calls[1].endpoint = "token"
       /\ calls[1].code = last.code
       /\ calls[1].code_verifier = last.codeVerifier
       /\ last.tokenAnswer = {}
            => (~last.res.success /\ last.res.error = "token_exchange_failed"
                /\ Len(calls) = 1)
       /\ last.tokenAnswer # {}
            => /\ Len(calls) = 2
               /\ calls[2].endpoint = "userinfo"
               /\ \A t \in last.tokenAnswer : calls[2].bearer = t.access_token
       /\ (last.tokenAnswer # {} /\ last.userAnswer = {})
            => (~last.res.success /\ last.res.error = "userinfo_fetch_failed")
       /\ last.res.success <=> (last.tokenAnswer # {} /\ last.userAnswer # {})
       /\ last.res.success
            => (last.res.tokens = last.tokenAnswer /\ last.res.userInfo = last.userAnswer)

\* C10 witness: the token exchange failed although the userinfo endpoint would have
\* answered.
C10_Witness ==
  /\ last.op = "handleCallback"
  /\ last.state = last.expectedState
  /\ last.tokenAnswer = {}
  /\ last.userAnswer # {}
  /\ last.res.error = "token_exchange_failed"
  /\ Len(last.res.calls) = 1

\* C11: the authorization URL built by initiateAuth carries client_id, redirect_uri,
\* response_type=code, state, code_challenge and code_challenge_method=S256 (and
\* scope when given); code_challenge is the S256 challenge of the returned
\* codeVerifier and state is the returned state.
C11_AuthorizationUrlComplete ==
  last.op = "initiateAuth" =>
    LET q == last.res.authorizationUrl.searchParams IN
    /\ {"client_id", "redirect_uri", "response_type", "state", "code_challenge",
        "code_challenge_method"} \subseteq DOMAIN q
    /\ q.client_id = ClientId
    /\ q.redirect_uri = CallbackUrl
    /\ q.response_type = "code"
    /\ q.state = last.res.state
    /\ q.code_challenge = generateCodeChallenge(last.res.codeVerifier)
    /\ q.code_challenge_method = "S256"
    /\ ~Falsy(last.params.scope) => ("scope" \in DOMAIN q /\ q.scope = last.params.scope)

\* C12: a store failure during the lookup in syncUserFromSSO is reported as
\* sync_error, which the caller can tell apart from user_not_found; a failing store
\* never makes syncUserFromSSO report user_not_found for a user that exists.  (The
\* username lookup is made only when the email lookup returned nothing.)
C12_StoreFailureIsSyncError ==
  last.op = "syncUserFromSSO" =>
    /\ ( \/ "email" \in last.faults
         \/ /\ "username" \in last.faults
            /\ \A u \in user : u.email # last.ssoUser.email )
         => last.res.error = "sync_error"
    /\ LocalMatch(last.ssoUser) # {} => last.res.error # "user_not_found"

\* C13: provisionUserFromSSO is idempotent when called sequentially: a second call
\* with the same identity, right after a call that returned, returns the same local
\* User, does not fail while the store works, and leaves the User table as it was,
\* with exactly one row for the identity.
C13_ProvisionIdempotent ==
  [][ ( /\ last.op = "provisionUserFromSSO"
        /\ ~last.res.threw
        /\ last'.op = "provisionUserFromSSO"
        /\ last'.ssoUser = last.ssoUser )
        => /\ user' = user
           /\ nextUserId' = nextUserId
           /\ Cardinality({u \in user' : u.email = last.ssoUser.email
                                          \/ u.username = last.ssoUser.username}) = 1
           /\ last'.faults = {} => ~last'.res.threw
           /\ ~last'.res.threw => last'.res.user = last.res.user
    ]_vars

\* C13 witness: provisionUserFromSSO returned the User that an earlier call created.
C13_Witness ==
  /\ last.op = "provisionUserFromSSO"
  /\ last.faults = {}
  /\ last.existed
  /\ ~last.res.threw
  /\ last.res.user \subseteq user
  /\ Cardinality(user) = 2

\* C14: with a working store, findLocalUser(email, username) returns the User whose
\* email is the given email whenever there is one, also when a different User has
\* the given username; it returns the User with that username only when no User has
\* the email, and null when neither matches.
C14_EmailMatchWins ==
  (last.op = "findLocalUser" /\ last.faults = {}) =>
    LET byEmail == {u \in user : u.email = last.email}
        byUsername == {u \in user : u.username = last.username} IN
    /\ byEmail # {} => last.res = byEmail
    /\ (byEmail = {} /\ byUsername # {}) => last.res = byUsername
    /\ (byEmail = {} /\ byUsername = {}) => last.res = {}

\* C14 witness: the email matched one User, the username another, and the email's
\* User was returned.
C14_Witness ==
  /\ last.op = "findLocalUser"
  /\ last.faults = {}
  /\ \E a \in user, b \in user :
       /\ a # b
       /\ a.email = last.email
       /\ b.username = last.username
       /\ last.res = {a}

\* C15: the local store never depends on provider-only attributes: for identities
\* that agree on email and username and differ in id, userType, employmentStatus,
\* employmentType, level or department, syncUserFromSSO, provisionUserFromSSO and
\* createLocalUser give the same result and the same User table, whatever the store
\* does; every User row holds id, email and username only.
C15_ProviderAttributesIgnored ==
  /\ \A u \in user : DOMAIN u = {"id", "email", "username"}
  /\ \A ssoUser \in SSOUsers, faults \in SUBSET {"email", "username", "create"} :
       LET synced == syncUserFromSSO(ssoUser, faults)
           provisioned == provisionUserFromSSO(ssoUser, faults)
           created == createLocalUser(ssoUser.email, ssoUser.username, "create" \in faults) IN
       /\ \A u \in provisioned.table \cup created.table :
            DOMAIN u = {"id", "email", "username"}
       /\ \A v \in ProviderVariants(ssoUser) :
            /\ syncUserFromSSO(v, faults) = synced
            /\ provisionUserFromSSO(v, faults) = provisioned
            /\ createLocalUser(v.email, v.username, "create" \in faults) = created

\* C15 witness: a User row was created for an identity, and an identity with another
\* id, userType and department is given that same row by provisionUserFromSSO and
\* by syncUserFromSSO.
C15_Witness ==
  /\ last.op = "provisionUserFromSSO"
  /\ ~last.existed
  /\ ~last.res.threw
  /\ last.res.user # {}
  /\ \E v \in ProviderVariants(last.ssoUser) :
       /\ v.id # last.ssoUser.id
       /\ v.userType # last.ssoUser.userType
       /\ provisionUserFromSSO(v, {}).user = last.res.user
       /\ syncUserFromSSO(v, {}).user = last.res.user

\* C16: with a working store, getUserPermissions(userId) returns exactly the union
\* of the permissions granted to the roles currently assigned to the user, each
\* (resource, action) pair once, and the empty list for a user with no roles.
C16_PermissionsAreUnion ==
  (last.op = "getUserPermissions" /\ ~last.fault) =>
    /\ {<<p.resource, p.action>> : p \in last.res}
         = {<<p.resource, p.action>> :
              p \in {q \in permission : GrantPath(last.userId, q.resource, q.action)}}
    /\ \A p \in last.res, q \in last.res :
         (p.resource = q.resource /\ p.action = q.action) => p = q
    /\ UserRoleFindMany(last.userId) = {} => last.res = {}

\* C17: refreshSessionIfNeeded is a no-op success when the session is not near
\* expiry: with a session and now < expiresAt - 60 seconds it returns true, makes
\* no call to the token endpoint and leaves the session unchanged; a refresh call is
\* made exactly when a session exists and now >= expiresAt - 60 seconds.
C17_RefreshOnlyNearExpiry ==
  [][ last'.op = "refreshSessionIfNeeded"
        => /\ (getSession # {} /\ \A s \in getSession : now < s.expiresAt - 60 * 1000)
                => /\ last'.res.result
                   /\ last'.res.calls = <<>>
                   /\ session' = session
           /\ last'.res.calls # <<>>
                <=> (\E s \in getSession : now >= s.expiresAt - 60 * 1000)
           /\ \A i \in DOMAIN last'.res.calls :
                /\ last'.res.calls[i].endpoint = "token"
                /\ last'.res.calls[i].grant_type = "refresh_token"
    ]_vars

\* C17 witness: some time after its creation the session is still more than 60
\* seconds from expiry, and refreshSessionIfNeeded returned true without a call.
C17_Witness ==
  /\ last.op = "refreshSessionIfNeeded"
  /\ last.res.result
  /\ last.res.calls = <<>>
  /\ now > 0
  /\ \E s \in session : now < s.expiresAt - 60 * 1000 /\ s.expiresAt < now + 120 * 1000

\* C18: when the refresh call to the provider fails, refreshSessionIfNeeded returns
\* false and the stored session is exactly what it was before the call; it is not
\* cleared.
C18_FailedRefreshKeepsSession ==
  [][ ( /\ last'.op = "refreshSessionIfNeeded"
        /\ last'.res.calls # <<>>
        /\ last'.refreshAnswer = {} )
        => /\ ~last'.res.result
           /\ session' = session
           /\ session' # {}
    ]_vars

\* C18 witness: a refresh was attempted, failed, and the session is still stored.
C18_Witness ==
  /\ last.op = "refreshSessionIfNeeded"
  /\ last.refreshAnswer = {}
  /\ Len(last.res.calls) = 1
  /\ ~last.res.result
  /\ \E s \in session : now >= s.expiresAt - 60 * 1000

\* C19: one call of refreshSessionIfNeeded, getAccessToken or
\* validateSessionAndGetUserId makes at most one call to the token endpoint, also
\* when that call fails.
C19_AtMostOneRefreshCall ==
  last.op \in {"refreshSessionIfNeeded", "getAccessToken", "validateSessionAndGetUserId"}
    => Len(last.res.calls) <= 1

\* C19 witness: validateSessionAndGetUserId asked the token endpoint once, the call
\* failed, and it returned null.
C19_Witness ==
  /\ last.op = "validateSessionAndGetUserId"
  /\ last.refreshAnswer = {}
  /\ Len(last.res.calls) = 1
  /\ last.res.result = {}
  /\ session # {}

\* C20: terminateSession clears the local session before it contacts the provider's
\* logout endpoint, and no answer of that endpoint restores the session: when the
\* local clear succeeded the result is true and getCurrentSession returns null
\* afterwards.  The provider is contacted only if a session with an access token
\* existed, and with that token.
C20_ClearThenLogout ==
  [][ last'.op = "terminateSession"
        => LET steps == last'.res.steps IN
           /\ steps # <<>>
           /\ steps[1].step = "clearSession"
           /\ ~last'.clearFault
                => /\ last'.res.result
                   /\ parseSession(session') = {}
           /\ \A i \in DOMAIN steps :
                steps[i].step = "logout"
                  => /\ i > 1
                     /\ \E s \in getSession : s.accessToken = steps[i].bearer
    ]_vars

\* C20 witness: a session existed, the logout endpoint timed out, and terminateSession
\* returned true with the session cleared.
C20_Witness ==
  /\ last.op = "terminateSession"
  /\ last.logoutAnswer = "timeout"
  /\ ~last.clearFault
  /\ last.res.result
  /\ Len(last.res.steps) = 2
  /\ last.res.steps[2].step = "logout"
  /\ session = {}

C22_UserRowsImmutable ==
  [][ \A u \in user : \A v \in user' : v.id = u.id => v = u ]_vars

\* C23: referential integrity holds in every reachable state: each UserRole row
\* references an existing User and an existing Role, each RolePermission row an
\* existing Role and an existing Permission.  After a User is deleted through the
\* admin users endpoint no UserRole row of that user is left, and checkPermission
\* for an id without a User row returns allowed=false for every (resource, action).
C23_ReferentialIntegrity ==
  /\ \A ur \in userRole : UserById(ur.userId) # {} /\ RoleById(ur.roleId) # {}
  /\ \A rp \in rolePermission :
       RoleById(rp.roleId) # {} /\ PermissionById(rp.permissionId) # {}
  /\ \A id \in UserIds :
       UserById(id) = {}
         => /\ UserRoleFindMany(id) = {}
            /\ \A resource \in Resources, action \in Actions, fault \in BOOLEAN :
                 ~checkPermission(id, resource, action, fault).allowed
  /\ (last.op = "deleteUser" /\ last.res.status = 200)
       => \A id \in last.id : UserById(id) = {} /\ UserRoleFindMany(id) = {}

\* C23 witness: a user who held a role with a granted permission was deleted, and
\* checkPermission now denies that permission to the deleted id.
C23_Witness ==
  /\ last.op = "deleteUser"
  /\ last.res.status = 200
  /\ last.hadRoles
  /\ \E id \in last.id, rp \in rolePermission, p \in permission :
       /\ rp.permissionId = p.id
       /\ ~checkPermission(id, p.resource, p.action, FALSE).allowed

\* the cookie is absent, not JSON, or lacks one of the fields of a session
MalformedSession(cookie) ==
  \/ cookie = {}
  \/ \E s \in cookie : ~(SessionFields \subseteq DOMAIN s)

\* C24: a session cookie that is absent, not parsable as JSON, or lacking any of the
\* fields user, accessToken, refreshToken or expiresAt is treated as no session by
\* every session operation: getCurrentSession returns null, isSessionValid returns
\* false, refreshSessionIfNeeded returns false without calling the provider, and
\* requireAuth and verifyAuth (on a protected route) reject the request.
C24_MalformedCookieIsNoSession ==
  [][ MalformedSession(session)
        => /\ last'.op = "getCurrentSession" => last'.res = {}
           /\ last'.op = "isSessionValid" => ~last'.res
           /\ last'.op = "refreshSessionIfNeeded"
                => ~last'.res.result /\ last'.res.calls = <<>>
           /\ last'.op = "requireAuth"
                => ~last'.res.authenticated /\ last'.res.status = 401
           /\ (last'.op = "verifyAuth" /\ ~last'.isPublic)
                => last'.res.response = "redirect_login"
    ]_vars

\* C26: verifyAuth lets a request to a protected route proceed only if a session
\* exists and, when the access token is expired or within 60 seconds of expiry, the
\* refresh succeeded and the new tokens were stored; with no session or a failed
\* refresh it answers with the redirect to the login endpoint.
C26_VerifyAuthGuards ==
  [][ (last'.op = "verifyAuth" /\ ~last'.isPublic)
        => /\ last'.res.response \in {"next", "redirect_login"}
           /\ last'.res.response = "next"
                => /\ getSession # {}
                   /\ \A s \in getSession :
                        (\E e \in ExpiresAtOf(s) : now >= e - 60 * 1000)
                          => /\ last'.refreshAnswer # {}
                             /\ \A t \in last'.refreshAnswer :
                                  session' = {[user |-> s.user,
                                               accessToken |-> t.access_token,
                                               refreshToken |-> t.refresh_token,
                                               expiresAt |-> now + t.expires_in * 1000]}
           /\ getSession = {}
                => last'.res.response = "redirect_login" /\ last'.res.calls = <<>>
           /\ ( /\ \E c \in DOMAIN last'.res.calls : last'.res.calls[c].endpoint = "token"
                /\ last'.refreshAnswer = {} )
                => last'.res.response = "redirect_login"
    ]_vars

\* C26 witness: a request to a protected route came with a session within 60
\* seconds of expiry, the refresh succeeded, and the request went on with the new
\* tokens stored.
C26_Witness ==
  /\ last.op = "verifyAuth"
  /\ ~last.isPublic
  /\ last.res.response = "next"
  /\ \E c \in DOMAIN last.res.calls : last.res.calls[c].endpoint = "token"
  /\ \E s \in session, t \in last.refreshAnswer :
       s.accessToken = t.access_token /\ s.expiresAt = now + t.expires_in * 1000

C30_ExtendWithinMaxDuration ==
  [][ last'.op = "extendSession"
        => /\ getSession = {} => last'.res.status = 401
           /\ \A s \in getSession, t \in loginAt :
                /\ now - t >= 6 * 60 * 60 * 1000
                     => /\ last'.res.status = 403
                        /\ last'.res.maxSessionReached = {TRUE}
                        /\ UNCHANGED session
                /\ last'.res.success
                     => \A x \in session' :
                          /\ x.expiresAt = Min(now + 10 * 60 * 1000, t + 6 * 60 * 60 * 1000)
                          /\ x.expiresAt <= t + 6 * 60 * 60 * 1000
    ]_vars

\* C27: assignRole and grantPermissionToRole are idempotent under concurrency:
\* calls for the same pair that overlap all report success, and exactly one join
\* row exists for the pair afterwards.
C27_ConcurrentAssignIdempotent ==
  \A r \in Requests :
    inflight[r].pc = "done"
      => /\ ( /\ inflight[r].op = "assignRole"
              /\ UserById(inflight[r].userId) # {}
              /\ RoleById(inflight[r].roleId) # {} )
              => /\ inflight[r].res.success
                 /\ Cardinality(UserRoleByKey(inflight[r].userId, inflight[r].roleId)) = 1
         /\ ( /\ inflight[r].op = "grantPermissionToRole"
              /\ RoleById(inflight[r].roleId) # {}
              /\ PermissionById(inflight[r].permissionId) # {} )
              => /\ inflight[r].res.success
                 /\ Cardinality(RolePermissionByKey(inflight[r].roleId,
                                                    inflight[r].permissionId)) = 1

\* C25: when refreshes of one session overlap, the last write wins: the session the
\* browser holds after a refresh that stored tokens is the one that refresh wrote,
\* its accessToken, refreshToken and expiresAt all come from the one token response
\* that refresh received, and its user snapshot is the one the session had before.
C25_ConcurrentRefreshConsistent ==
  [][ ( /\ last'.op = "refreshSessionIfNeeded"
        /\ last'.setCookie # {}
        /\ session # {} )
        => /\ session' \in last'.setCookie
           /\ \A c \in session' :
                /\ \E t \in last'.tokens :
                     /\ c.accessToken = t.access_token
                     /\ c.refreshToken = t.refresh_token
                     /\ c.expiresAt = last'.storedAt + t.expires_in * 1000
                /\ \A b \in session : c.user = b.user
    ]_vars

\* C25 witness: a refresh stored its tokens over the tokens another refresh, sent
\* with the same session, had stored in the meantime.
C25_Witness ==
  /\ last.op = "refreshSessionIfNeeded"
  /\ last.setCookie # {}
  /\ last.before # {}
  /\ last.before # last.cookie
  /\ session \in last.setCookie
  /\ session # last.before

\* C29: logout is final with respect to requests in flight: once the session is
\* cleared, no request that completes a refresh writes a session back.
C29_LogoutIsFinal ==
  [][ (session = {} /\ last'.op = "refreshSessionIfNeeded") => session' = {} ]_vars

====
